---- MODULE Spec2Model ----
(***************************************************************************)
(* gff-nostream: the GFF3 reference resolver.                              *)
(*                                                                         *)
(* Two resolvers live in the repository and both are modelled here:        *)
(*   - class Parser (src/src/api.ts 126-436): addLine /                    *)
(*     addParsedFeatureLine / finish with the four construction tables,    *)
(*     the bounded buffer and the error callback;                          *)
(*   - parseRecords (src/unnamed/part_000 143-220): the single-pass        *)
(*     function with a by-ID map and an orphan map.                        *)
(*                                                                         *)
(* JavaScript objects have identity and are mutated in place, so Features  *)
(* and feature lines live in two arenas (features, lines) and every table  *)
(* holds arena indices.  A handler is one action; an exception leaves the  *)
(* assignments made before the throw in place.                             *)
(***************************************************************************)
EXTENDS Integers, Sequences, FiniteSets, TLC

\* ------------------------------------------------------------------ bounds
\* Longest input (number of lines / records) of the general specification.
MaxLen == 4
\* Longest input of the buffer-size specification.
MaxLenBuf == 4

\* ------------------------------------------------------------- vocabulary
IDs == {"a", "b", "c"}
Types == {"gene", "mRNA"}

\* A decoded feature line as the resolver reads it: type and the three
\* identity-bearing attributes (each a list of values, <<>> when absent).
FL(t, ids, parents, derives) ==
  [kind |-> "feature", type |-> t, ID |-> ids, Parent |-> parents,
   Derives_from |-> derives]

\* Non-feature input lines, by the branch of addLine that handles them.
Other(k) ==
  [kind |-> k, type |-> "", ID |-> <<>>, Parent |-> <<>>, Derives_from |-> <<>>]

\* bufferSize: a number, or Infinity when the argument is undefined.
Infinity == [finite |-> FALSE, n |-> 0]
Finite(n) == [finite |-> TRUE, n |-> n]

\* n > bufferSize, as JavaScript compares a number with Infinity.
Exceeds(n, bufferSize) == bufferSize.finite /\ n > bufferSize.n

\* ------------------------------------------------------------- messages
NoExc == [kind |-> "none", lineNumber |-> 0, id |-> "", types |-> <<>>, ids |-> {}]

\* `${lineNumber}: multi-line feature "${id}" has inconsistent types: "${new}", "${old}"`
TypeMismatchMsg(lineNo, id, newType, oldType) ==
  [kind |-> "inconsistent types", lineNumber |-> lineNo, id |-> id,
   types |-> <<newType, oldType>>, ids |-> {}]

\* "some features reference other features that do not exist ... ${orphanKeys}"
UnresolvedMsg(keys) ==
  [kind |-> "unresolved references", lineNumber |-> 0, id |-> "", types |-> <<>>,
   ids |-> keys]

\* RangeError: Maximum call stack size exceeded
StackOverflowMsg ==
  [kind |-> "RangeError", lineNumber |-> 0, id |-> "", types |-> <<>>, ids |-> {}]

\* ------------------------------------------------------------------ state
VARIABLES
  api,           \* which entry point the caller uses: "Parser" or "parseRecords"
  input,         \* the lines (records) the caller is going to feed
  pos,           \* how many of them have been fed
  pc,            \* "feeding", "done" (finish / return happened), "hung"
  bufferSize, disableDerivesFromReferences,
  errorCallbackThrows,   \* whether the configured errorCallback throws
  eof, lineNumber,
  underConstructionTopLevel, underConstructionById,
  completedReferences, underConstructionOrphans,
  lines, features,       \* the arenas of feature-line and Feature objects
  delivered,     \* featureCallback invocations, in order (Feature indices)
  errors,        \* errorCallback invocations, in order
  thrown,        \* the exception the last call threw (NoExc when it returned)
  ended,         \* endCallback invocations
  others,        \* directiveCallback / commentCallback invocations
  items, byId, orphans,  \* parseRecords' locals
  str,           \* the string handed to a function of util (UTF-16 code units)
  result,        \* what the last call of such a function returned or threw
  unescapeVersion  \* which of the repository's three unescape functions is in use

vars ==
  <<api, input, pos, pc, bufferSize, disableDerivesFromReferences,
    errorCallbackThrows, eof, lineNumber, underConstructionTopLevel,
    underConstructionById, completedReferences, underConstructionOrphans,
    lines, features, delivered, errors, thrown, ended, others,
    items, byId, orphans, str, result, unescapeVersion>>

\* ---------------------------------------------------------------- helpers
NoRefs == [Parent |-> <<>>, Derives_from |-> <<>>]

\* A new line object: _bufferParsedLine sets both lists to [].
NewLine(fl, lineNo) ==
  [type |-> fl.type, ID |-> fl.ID, Parent |-> fl.Parent,
   Derives_from |-> fl.Derives_from, no |-> lineNo,
   child_features |-> <<>>, derived_features |-> <<>>]

SeqToSet(s) == {s[i] : i \in 1..Len(s)}

\* The Parser object (with its callbacks' logs) as one record.
NewParser(bs, disable, throws) ==
  [bufferSize |-> bs, disableDerivesFromReferences |-> disable, throws |-> throws,
   eof |-> FALSE, lineNumber |-> 0,
   underConstructionTopLevel |-> <<>>,
   underConstructionById |-> [i \in IDs |-> 0],
   completedReferences |-> [i \in IDs |-> {}],
   underConstructionOrphans |-> [i \in IDs |-> NoRefs],
   lines |-> <<>>, features |-> <<>>,
   delivered |-> <<>>, errors |-> <<>>, exc |-> NoExc, hung |-> FALSE,
   ended |-> 0, others |-> 0]

\* Object.keys(this._underConstructionOrphans)
OrphanKeys(p) == {i \in IDs : p.underConstructionOrphans[i] # NoRefs}

\* A call that threw or never returned runs no further statement.
Stopped(p) == p.exc # NoExc \/ p.hung

\* _emitItem on a Feature: featureCallback(i)
EmitFeature(p, f) == [p EXCEPT !.delivered = Append(@, f)]

\* _emitItem on a directive or a comment
EmitOther(p) == [p EXCEPT !.others = @ + 1]

\* The child and derived Features of every line of Feature f, in the order
\* _unbufferItem visits them.
RECURSIVE KidsOfLines(_, _)
KidsOfLines(p, ls) ==
  IF ls = <<>> THEN <<>>
  ELSE p.lines[Head(ls)].child_features \o p.lines[Head(ls)].derived_features
       \o KidsOfLines(p, Tail(ls))

\* An _unbufferItem that drops the IDs of the item itself and does not
\* descend into child_features / derived_features.
UnbufferItemShallow(p, f, path) ==
  LET first == p.lines[p.features[f][1]] IN
  IF Stopped(p) \/ first.ID = <<>> THEN p
  ELSE LET ids == SeqToSet(first.ID) IN
       [p EXCEPT
          !.underConstructionById = [i \in IDs |-> IF i \in ids THEN 0 ELSE @[i]],
          !.completedReferences = [i \in IDs |-> IF i \in ids THEN {} ELSE @[i]]]

\* _unbufferItem: drop the IDs of item[0] and, recursively, of every
\* descendant from the by-ID and completed-reference tables.  `path` is the
\* chain of calls on the stack: meeting a Feature again on it means the
\* recursion never ends and the engine throws RangeError.
RECURSIVE UnbufferItem(_, _, _)
RECURSIVE UnbufferKids(_, _, _)
UnbufferItem(p, f, path) ==
  LET first == p.lines[p.features[f][1]] IN
  IF Stopped(p) \/ first.ID = <<>> THEN p
  ELSE IF f \in path THEN [p EXCEPT !.exc = StackOverflowMsg]
  ELSE LET ids == SeqToSet(first.ID)
           p1 == [p EXCEPT
                    !.underConstructionById =
                       [i \in IDs |-> IF i \in ids THEN 0 ELSE @[i]],
                    !.completedReferences =
                       [i \in IDs |-> IF i \in ids THEN {} ELSE @[i]]]
       IN UnbufferKids(p1, KidsOfLines(p1, p1.features[f]), path \cup {f})
UnbufferKids(p, kids, path) ==
  IF kids = <<>> \/ Stopped(p) THEN p
  ELSE UnbufferKids(UnbufferItem(p, Head(kids), path), Tail(kids), path)

\* An _enforceBufferSizeLimit that forgets the announced addition and looks at
\* the queue alone.
RECURSIVE EnforceBufferSizeLimitIgnoresAddition(_, _)
EnforceBufferSizeLimitIgnoresAddition(p, additionalItemCount) ==
  IF Stopped(p) \/ ~Exceeds(Len(p.underConstructionTopLevel), p.bufferSize)
  THEN p
  ELSE IF p.underConstructionTopLevel = <<>> THEN [p EXCEPT !.hung = TRUE]
  ELSE LET item == Head(p.underConstructionTopLevel)
           p1 == [p EXCEPT !.underConstructionTopLevel = Tail(@)]
       IN EnforceBufferSizeLimitIgnoresAddition(
            UnbufferItem(EmitFeature(p1, item), item, {}), additionalItemCount)

\* _enforceBufferSizeLimit: shift and emit the oldest queued Feature while the
\* queue plus the announced additions exceeds bufferSize.  With an empty queue
\* shift() yields undefined and the condition never changes: the loop spins.
RECURSIVE EnforceBufferSizeLimit(_, _)
EnforceBufferSizeLimit(p, additionalItemCount) ==
  IF Stopped(p)
     \/ ~Exceeds(Len(p.underConstructionTopLevel) + additionalItemCount, p.bufferSize)
  THEN p
  ELSE IF p.underConstructionTopLevel = <<>> THEN [p EXCEPT !.hung = TRUE]
  ELSE LET item == Head(p.underConstructionTopLevel)
           p1 == [p EXCEPT !.underConstructionTopLevel = Tail(@)]
       IN EnforceBufferSizeLimit(UnbufferItem(EmitFeature(p1, item), item, {}),
                                 additionalItemCount)

\* A flush that walks the queue from its newest Feature to its oldest.
RECURSIVE EmitAllOfNewestFirst(_, _)
EmitAllOfNewestFirst(p, q) ==
  IF q = <<>> THEN p
  ELSE EmitAllOfNewestFirst(EmitFeature(p, q[Len(q)]), SubSeq(q, 1, Len(q) - 1))

\* Emit every queued Feature in queue order.
RECURSIVE EmitAllOf(_, _)
EmitAllOf(p, q) ==
  IF q = <<>> THEN p ELSE EmitAllOf(EmitFeature(p, Head(q)), Tail(q))

\* A flush that forgets to reset the by-ID table.
EmitAllUnderConstructionFeaturesKeepsById(p) ==
  LET p1 == [EmitAllOf(p, p.underConstructionTopLevel) EXCEPT
               !.underConstructionTopLevel = <<>>,
               !.completedReferences = [i \in IDs |-> {}]]
  IN IF OrphanKeys(p1) # {}
     THEN [p1 EXCEPT !.exc = UnresolvedMsg(OrphanKeys(p1))]
     ELSE p1

\* _emitAllUnderConstructionFeatures: flush the queue, reset three tables, and
\* throw when orphans remain (the orphan table itself is left as it is).
EmitAllUnderConstructionFeatures(p) ==
  LET p1 == [EmitAllOf(p, p.underConstructionTopLevel) EXCEPT
               !.underConstructionTopLevel = <<>>,
               !.underConstructionById = [i \in IDs |-> 0],
               !.completedReferences = [i \in IDs |-> {}]]
  IN IF OrphanKeys(p1) # {}
     THEN [p1 EXCEPT !.exc = UnresolvedMsg(OrphanKeys(p1))]
     ELSE p1

\* _parseError: eof is set, then the caller's errorCallback gets the message.
ParseError(p, msg) ==
  LET p1 == [p EXCEPT !.eof = TRUE, !.errors = Append(@, msg)] IN
  IF p.throws THEN [p1 EXCEPT !.exc = msg] ELSE p1

\* loc.child_features.push(...) / loc.derived_features.push(...) on every
\* line of Feature f.
PushToLines(p, f, kids, derivs) ==
  LET ls == SeqToSet(p.features[f]) IN
  [p EXCEPT !.lines =
     [i \in 1..Len(@) |->
        IF i \in ls
        THEN [@[i] EXCEPT !.child_features = @ \o kids,
                          !.derived_features = @ \o derivs]
        ELSE @[i]]]

\* A resolver that attaches the waiting Features and keeps the orphan entry.
ResolveReferencesToKeepsEntry(p, f, id) ==
  LET references == p.underConstructionOrphans[id] IN
  IF references = NoRefs THEN p
  ELSE PushToLines(p, f, references.Parent, references.Derives_from)

\* A resolver that forgets the Features waiting for `id`.
ResolveReferencesToForgets(p, f, id) ==
  [p EXCEPT !.underConstructionOrphans[id] = NoRefs]

\* _resolveReferencesTo: attach the Features that were waiting for `id`.
ResolveReferencesTo(p, f, id) ==
  LET references == p.underConstructionOrphans[id] IN
  IF references = NoRefs THEN p
  ELSE [PushToLines(p, f, references.Parent, references.Derives_from) EXCEPT
          !.underConstructionOrphans[id] = NoRefs]

\* The loop over ids inside _resolveReferencesFrom: mark domKey in every id's
\* record; dominated when some record had it already.
RECURSIVE MarkCompleted(_, _, _, _)
MarkCompleted(p, ids, domKey, dominated) ==
  IF ids = <<>> THEN [p |-> p, dominated |-> dominated]
  ELSE MarkCompleted(
         [p EXCEPT !.completedReferences[Head(ids)] = @ \cup {domKey}],
         Tail(ids), domKey,
         dominated \/ domKey \in p.completedReferences[Head(ids)])

\* One reference of kind `kind` ("Parent" or "Derives_from") from Feature f.
ResolveOne(p, f, kind, toId, ids) ==
  LET otherFeature == p.underConstructionById[toId] IN
  IF otherFeature # 0
  THEN LET m == MarkCompleted(p, ids, <<kind, toId>>, FALSE) IN
       IF m.dominated THEN m.p
       ELSE IF kind = "Parent"
            THEN PushToLines(m.p, otherFeature, <<f>>, <<>>)
            ELSE PushToLines(m.p, otherFeature, <<>>, <<f>>)
  ELSE [p EXCEPT !.underConstructionOrphans[toId][kind] = Append(@, f)]

RECURSIVE ResolveAll(_, _, _, _, _)
ResolveAll(p, f, kind, toIds, ids) ==
  IF toIds = <<>> THEN p
  ELSE ResolveAll(ResolveOne(p, f, kind, Head(toIds), ids), f, kind, Tail(toIds), ids)

\* _resolveReferencesFrom: link f under every Parent, then under every
\* Derives_from target, or park it in the orphan table.
ResolveReferencesFrom(p, f, parents, derives, ids) ==
  ResolveAll(ResolveAll(p, f, "Parent", parents, ids), f, "Derives_from", derives, ids)

\* A forEach body that never looks the id up: every line starts a Feature.
BufferOneIdNeverMerges(r, li, id, topLevel) ==
  LET p == r.p
      f == Len(p.features) + 1
      p1 == [p EXCEPT !.features = Append(@, <<li>>),
                      !.underConstructionTopLevel =
                         IF topLevel THEN Append(@, f) ELSE @,
                      !.underConstructionById[id] = f]
  IN [p |-> p1, feature |-> f]

\* The body of ids.forEach in _bufferParsedLine, for one id.  r.feature is the
\* closure's `feature` variable (0 while undefined); li is the new line.
BufferOneId(r, li, id, topLevel) ==
  LET p == r.p
      existing == p.underConstructionById[id]
  IN
  IF Stopped(p) THEN r
  ELSE IF existing # 0
  THEN LET last == p.lines[p.features[existing][Len(p.features[existing])]]
           p1 == IF last.type # p.lines[li].type
                 THEN ParseError(p, TypeMismatchMsg(p.lineNumber, id,
                                                    p.lines[li].type, last.type))
                 ELSE p
       IN IF Stopped(p1) THEN [p |-> p1, feature |-> r.feature]
          ELSE [p |-> [p1 EXCEPT !.features[existing] = Append(@, li)],
                feature |-> existing]
  ELSE LET f == Len(p.features) + 1
           p1 == EnforceBufferSizeLimit([p EXCEPT !.features = Append(@, <<li>>)], 1)
           p2 == IF topLevel
                 THEN [p1 EXCEPT !.underConstructionTopLevel = Append(@, f)]
                 ELSE p1
           p3 == [p2 EXCEPT !.underConstructionById[id] = f]
       IN IF Stopped(p1) THEN [p |-> p1, feature |-> r.feature]
          ELSE [p |-> ResolveReferencesTo(p3, f, id), feature |-> f]

RECURSIVE BufferIds(_, _, _, _)
BufferIds(r, li, ids, topLevel) ==
  IF ids = <<>> THEN r
  ELSE BufferIds(BufferOneId(r, li, Head(ids), topLevel), li, Tail(ids), topLevel)

\* A _bufferParsedLine without the early return of the standalone case: the
\* one-line Feature is queued as top-level and waits for the flush.
BufferParsedLineQueuesStandalone(p, fl) ==
  LET li == Len(p.lines) + 1
      p0 == [p EXCEPT !.lines = Append(@, NewLine(fl, p.lineNumber))]
      ids == fl.ID
      parents == fl.Parent
      derives == IF p.disableDerivesFromReferences THEN <<>> ELSE fl.Derives_from
      r == BufferIds([p |-> p0, feature |-> 0], li, ids,
                     parents = <<>> /\ derives = <<>>)
      p1 == IF r.feature = 0
            THEN [r.p EXCEPT !.features = Append(@, <<li>>),
                             !.underConstructionTopLevel =
                                IF parents = <<>> /\ derives = <<>>
                                THEN Append(@, Len(r.p.features) + 1) ELSE @]
            ELSE r.p
      f == IF r.feature = 0 THEN Len(p1.features) ELSE r.feature
  IN IF Stopped(r.p) THEN r.p
     ELSE ResolveReferencesFrom(p1, f, parents, derives, ids)

\* _bufferParsedLine
BufferParsedLine(p, fl) ==
  LET li == Len(p.lines) + 1
      p0 == [p EXCEPT !.lines = Append(@, NewLine(fl, p.lineNumber))]
      ids == fl.ID
      parents == fl.Parent
      derives == IF p.disableDerivesFromReferences THEN <<>> ELSE fl.Derives_from
  IN
  IF ids = <<>> /\ parents = <<>> /\ derives = <<>>
  THEN EmitFeature([p0 EXCEPT !.features = Append(@, <<li>>)], Len(p0.features) + 1)
  ELSE LET r == BufferIds([p |-> p0, feature |-> 0], li, ids,
                          parents = <<>> /\ derives = <<>>)
           \* feature || [featureLine]
           p1 == IF r.feature = 0
                 THEN [r.p EXCEPT !.features = Append(@, <<li>>)]
                 ELSE r.p
           f == IF r.feature = 0 THEN Len(p1.features) ELSE r.feature
       IN IF Stopped(r.p) THEN r.p
          ELSE ResolveReferencesFrom(p1, f, parents, derives, ids)

\* addLine, by the branch the line takes.
AddLineTo(p, item) ==
  IF p.eof THEN [p EXCEPT !.exc = NoExc]
  ELSE LET p0 == [p EXCEPT !.exc = NoExc, !.lineNumber = @ + 1] IN
       CASE item.kind = "feature" -> BufferParsedLine(p0, item)
         [] item.kind = "sync" -> EmitAllUnderConstructionFeatures(p0)
         [] item.kind \in {"FASTA", "fastaStart"} ->
              LET p1 == EmitAllUnderConstructionFeatures(p0) IN
              IF Stopped(p1) THEN p1 ELSE [p1 EXCEPT !.eof = TRUE]
         [] item.kind \in {"directive", "comment"} -> EmitOther(p0)
         [] OTHER -> p0

\* addParsedFeatureLine
AddParsedFeatureLineTo(p, fl) ==
  IF p.eof THEN [p EXCEPT !.exc = NoExc]
  ELSE BufferParsedLine([p EXCEPT !.exc = NoExc, !.lineNumber = @ + 1], fl)

\* A finish() that calls endCallback whatever the flush did.
FinishOfAlwaysEnds(p) ==
  LET p1 == EmitAllUnderConstructionFeatures([p EXCEPT !.exc = NoExc]) IN
  [p1 EXCEPT !.ended = @ + 1]

\* finish
FinishOf(p) ==
  LET p1 == EmitAllUnderConstructionFeatures([p EXCEPT !.exc = NoExc]) IN
  IF Stopped(p1) THEN p1 ELSE [p1 EXCEPT !.ended = @ + 1]

\* A caller's whole session on a fresh Parser: addLine for each line of inp in
\* turn (going on after a call that threw), up to a call that never returns.
RECURSIVE FeedAll(_, _)
FeedAll(p, inp) ==
  IF inp = <<>> \/ p.hung THEN p
  ELSE FeedAll(AddLineTo(p, Head(inp)), Tail(inp))

\* ... and then finish().
RunParser(inp, bs, disable, throws) ==
  LET p == FeedAll(NewParser(bs, disable, throws), inp) IN
  IF p.hung THEN p ELSE FinishOf(p)

\* ------------------------------------------------------------ parseRecords
\* parseRecords' locals (with the arenas it allocates in) as one record.
NewRecords ==
  [items |-> <<>>, byId |-> [i \in IDs |-> 0], orphans |-> [i \in IDs |-> <<>>],
   lines |-> <<>>, features |-> <<>>]

\* parent[k].child_features.push(feature) for every line of the parent.
PushChild(r, parent, kids) ==
  LET ls == SeqToSet(r.features[parent]) IN
  [r EXCEPT !.lines =
     [i \in 1..Len(@) |->
        IF i \in ls THEN [@[i] EXCEPT !.child_features = @ \o kids] ELSE @[i]]]

\* The loop over parents at the end of one iteration of parseRecords.
RECURSIVE LinkParents(_, _, _)
LinkParents(r, f, parents) ==
  IF parents = <<>> THEN r
  ELSE LET parentId == Head(parents)
           parent == r.byId[parentId]
           r1 == IF parent # 0
                 THEN PushChild(r, parent, <<f>>)
                 ELSE [r EXCEPT !.orphans[parentId] = Append(@, f)]
       IN LinkParents(r1, f, Tail(parents))

\* One iteration of the loop of parseRecords, on the decoded record fl.
ParseRecord(r, fl) ==
  LET li == Len(r.lines) + 1
      r0 == [r EXCEPT !.lines = Append(@, NewLine(fl, li))]
      ids == fl.ID
      parents == fl.Parent
      f == Len(r.features) + 1
  IN
  IF ids = <<>> /\ parents = <<>>
  THEN [r0 EXCEPT !.features = Append(@, <<li>>), !.items = Append(@, f)]
  ELSE IF ids # <<>>
  THEN LET id == ids[1]
           existing == r0.byId[id]
       IN IF existing # 0
          THEN LinkParents([r0 EXCEPT !.features[existing] = Append(@, li)],
                           existing, parents)
          ELSE LET r1 == [r0 EXCEPT !.features = Append(@, <<li>>),
                                    !.items = IF parents = <<>> THEN Append(@, f) ELSE @,
                                    !.byId[id] = f]
                   waiting == r1.orphans[id]
                   r2 == IF waiting # <<>>
                         THEN [r1 EXCEPT
                                 !.lines[li].child_features = @ \o waiting,
                                 !.orphans[id] = <<>>]
                         ELSE r1
               IN LinkParents(r2, f, parents)
  ELSE LinkParents([r0 EXCEPT !.features = Append(@, <<li>>)], f, parents)

\* ------------------------------------------------------------- the system
\* A Parser whose constructor drops the disableDerivesFromReferences argument
\* (the field keeps its default, false).
PDerivesEnabled ==
  [bufferSize |-> bufferSize,
   disableDerivesFromReferences |-> FALSE,
   throws |-> errorCallbackThrows, eof |-> eof, lineNumber |-> lineNumber,
   underConstructionTopLevel |-> underConstructionTopLevel,
   underConstructionById |-> underConstructionById,
   completedReferences |-> completedReferences,
   underConstructionOrphans |-> underConstructionOrphans,
   lines |-> lines, features |-> features, delivered |-> delivered,
   errors |-> errors, exc |-> thrown, hung |-> pc = "hung", ended |-> ended,
   others |-> others]

\* The Parser object assembled from the variables.
P ==
  [bufferSize |-> bufferSize,
   disableDerivesFromReferences |-> disableDerivesFromReferences,
   throws |-> errorCallbackThrows, eof |-> eof, lineNumber |-> lineNumber,
   underConstructionTopLevel |-> underConstructionTopLevel,
   underConstructionById |-> underConstructionById,
   completedReferences |-> completedReferences,
   underConstructionOrphans |-> underConstructionOrphans,
   lines |-> lines, features |-> features, delivered |-> delivered,
   errors |-> errors, exc |-> thrown, hung |-> pc = "hung", ended |-> ended,
   others |-> others]

\* The variables after a Parser call that left the object as p.
Commit(p) ==
  /\ eof' = p.eof
  /\ lineNumber' = p.lineNumber
  /\ underConstructionTopLevel' = p.underConstructionTopLevel
  /\ underConstructionById' = p.underConstructionById
  /\ completedReferences' = p.completedReferences
  /\ underConstructionOrphans' = p.underConstructionOrphans
  /\ lines' = p.lines
  /\ features' = p.features
  /\ delivered' = p.delivered
  /\ errors' = p.errors
  /\ thrown' = p.exc
  /\ ended' = p.ended
  /\ others' = p.others
  /\ UNCHANGED <<api, input, bufferSize, disableDerivesFromReferences,
                 errorCallbackThrows, items, byId, orphans,
                 str, result, unescapeVersion>>

\* parseRecords' locals assembled from the variables.
R == [items |-> items, byId |-> byId, orphans |-> orphans,
      lines |-> lines, features |-> features]

\* The resolver right after construction, for one caller, configuration and
\* input.
Constructed(apis, inputs, sizes, disables, throwing) ==
  /\ api \in apis
  /\ input \in inputs
  /\ bufferSize \in sizes
  /\ disableDerivesFromReferences \in disables
  /\ errorCallbackThrows \in throwing
  /\ api = "parseRecords" =>
       /\ bufferSize = Infinity
       /\ disableDerivesFromReferences
       /\ errorCallbackThrows
       /\ \A i \in 1..Len(input) : input[i].kind = "feature"
  /\ pos = 0
  /\ pc = "feeding"
  /\ eof = FALSE
  /\ lineNumber = 0
  /\ underConstructionTopLevel = <<>>
  /\ underConstructionById = [i \in IDs |-> 0]
  /\ completedReferences = [i \in IDs |-> {}]
  /\ underConstructionOrphans = [i \in IDs |-> NoRefs]
  /\ lines = <<>>
  /\ features = <<>>
  /\ delivered = <<>>
  /\ errors = <<>>
  /\ thrown = NoExc
  /\ ended = 0
  /\ others = 0
  /\ items = <<>>
  /\ byId = [i \in IDs |-> 0]
  /\ orphans = [i \in IDs |-> <<>>]

\* The state right after construction, for one caller, configuration and input;
\* no function of util has been called on its own.
InitWith(apis, inputs, sizes, disables, throwing) ==
  /\ Constructed(apis, inputs, sizes, disables, throwing)
  /\ str = <<>>
  /\ result = <<>>
  /\ unescapeVersion = "none"

\* parser.addLine(line)
AddLine ==
  /\ api = "Parser" /\ pc = "feeding" /\ pos < Len(input)
  /\ LET p == AddLineTo(P, input[pos + 1]) IN
       /\ Commit(p)
       /\ pc' = IF p.hung THEN "hung" ELSE "feeding"
  /\ pos' = pos + 1

\* parser.addParsedFeatureLine(featureLine)
AddParsedFeatureLine ==
  /\ api = "Parser" /\ pc = "feeding" /\ pos < Len(input)
  /\ input[pos + 1].kind = "feature"
  /\ LET p == AddParsedFeatureLineTo(P, input[pos + 1]) IN
       /\ Commit(p)
       /\ pc' = IF p.hung THEN "hung" ELSE "feeding"
  /\ pos' = pos + 1

\* parser.finish(), once the caller has fed all its lines
Finish ==
  /\ api = "Parser" /\ pc = "feeding" /\ pos = Len(input)
  /\ Commit(FinishOf(P))
  /\ pc' = "done"
  /\ pos' = pos

\* one iteration of the loop of parseRecords
ParseRecordsStep ==
  /\ api = "parseRecords" /\ pc = "feeding" /\ pos < Len(input)
  /\ LET r == ParseRecord(R, input[pos + 1]) IN
       /\ items' = r.items
       /\ byId' = r.byId
       /\ orphans' = r.orphans
       /\ lines' = r.lines
       /\ features' = r.features
  /\ pos' = pos + 1
  /\ UNCHANGED <<api, input, pc, bufferSize, disableDerivesFromReferences,
                 errorCallbackThrows, eof, lineNumber, underConstructionTopLevel,
                 underConstructionById, completedReferences,
                 underConstructionOrphans, delivered, errors, thrown, ended, others,
                 str, result, unescapeVersion>>

\* `return items`: the caller receives the top-level Features
ParseRecordsReturn ==
  /\ api = "parseRecords" /\ pc = "feeding" /\ pos = Len(input)
  /\ delivered' = items
  /\ pc' = "done"
  /\ UNCHANGED <<api, input, pos, bufferSize, disableDerivesFromReferences,
                 errorCallbackThrows, eof, lineNumber, underConstructionTopLevel,
                 underConstructionById, completedReferences,
                 underConstructionOrphans, lines, features, errors, thrown, ended,
                 others, items, byId, orphans, str, result, unescapeVersion>>

Next ==
  \/ AddLine
  \/ AddParsedFeatureLine
  \/ Finish
  \/ ParseRecordsStep
  \/ ParseRecordsReturn

\* All sequences over S of length at most n.
SeqsUpTo(S, n) == UNION {[1..k -> S] : k \in 0..n}

\* The lines of the general specification: a gene, a second line of the same
\* ID with another type, a child, a line with two IDs, a child without ID, and
\* the sync marker.
GeneA == FL("gene", <<"a">>, <<>>, <<>>)
MrnaA == FL("mRNA", <<"a">>, <<>>, <<>>)
MrnaBofA == FL("mRNA", <<"b">>, <<"a">>, <<>>)
GeneAB == FL("gene", <<"a", "b">>, <<>>, <<>>)
PartOfB == FL("mRNA", <<>>, <<"b">>, <<>>)
Sync == Other("sync")

Alphabet == {GeneA, MrnaA, MrnaBofA, GeneAB, PartOfB, Sync}

Init ==
  InitWith({"Parser", "parseRecords"}, SeqsUpTo(Alphabet, MaxLen),
           {Finite(1), Finite(2), Infinity}, {TRUE}, {TRUE, FALSE})

Spec == Init /\ [][Next]_vars

\* ------------------------------------------------------------ observation
\* What a consumer sees of Feature f: its lines in order, each with its type
\* and identity attributes and, nested, the Features of its two lists.  The
\* object graph may be cyclic, so the view stops at depth d.
RECURSIVE View(_, _, _, _)
View(ls, fs, f, d) ==
  IF d = 0 THEN <<>>
  ELSE [i \in 1..Len(fs[f]) |->
          LET l == ls[fs[f][i]] IN
          [type |-> l.type, ID |-> l.ID, Parent |-> l.Parent,
           child_features |->
             [k \in 1..Len(l.child_features) |-> View(ls, fs, l.child_features[k], d - 1)],
           derived_features |->
             [k \in 1..Len(l.derived_features) |-> View(ls, fs, l.derived_features[k], d - 1)]]]

\* The Features handed to the caller so far, as the caller sees them.
DeliveredViews ==
  [k \in 1..Len(delivered) |-> View(lines, features, delivered[k], Len(features) + 1)]

\* A one-line Feature view.
Leaf(t, ids, parents, kids) ==
  <<[type |-> t, ID |-> ids, Parent |-> parents, child_features |-> kids,
     derived_features |-> <<>>]>>

Count(s, x) == Cardinality({i \in 1..Len(s) : s[i] = x})

\* The input is one scope of lines drawn from S.
OneScopeOf(S) == \A k \in 1..Len(input) : input[k] \in S

\* C2: when the lines of Feature b repeat Parent=a two or more times, then
\* after the flush every line of a lists exactly one child, the Feature b,
\* whatever the interleaving of the lines of a and b.
C2_ExactlyOneEntry ==
  (/\ pc = "done"
   /\ ~bufferSize.finite
   /\ OneScopeOf({GeneA, MrnaBofA})
   /\ Count(input, MrnaBofA) >= 2
   /\ Count(input, GeneA) >= 1)
  => \A i \in 1..Len(lines) :
       lines[i].ID = <<"a">> =>
         /\ Len(lines[i].child_features) = 1
         /\ lines[features[lines[i].child_features[1]][1]].ID = <<"b">>

\* ------------------------------------------------------------------- C3
\* The by-ID table of the resolver in use.
ById == IF api = "Parser" THEN underConstructionById ELSE byId

\* The next line carries one ID whose Feature is under construction with
\* another type, and the resolver is going to process it.
TypeMismatchArrives ==
  /\ pc = "feeding" /\ pos < Len(input)
  /\ api = "Parser" => ~eof
  /\ LET it == input[pos + 1] IN
       /\ it.kind = "feature" /\ Len(it.ID) = 1
       /\ ById[it.ID[1]] # 0
       /\ lines[features[ById[it.ID[1]]][1]].type # it.type

\* m is a type-mismatch message naming id and the two types.
NamesMismatch(m, id, t1, t2) ==
  m.kind = "inconsistent types" /\ m.id = id /\ SeqToSet(m.types) = {t1, t2}

\* C3: a line with ID=g1 that arrives while the Feature g1 is under
\* construction with another type makes the step fail with a type-mismatch
\* error naming g1 and both types.
C3_TypeMismatchFails ==
  [][TypeMismatchArrives =>
       LET it == input[pos + 1]
           old == lines[features[ById[it.ID[1]]][1]].type
       IN \/ NamesMismatch(thrown', it.ID[1], it.type, old)
          \/ /\ Len(errors') = Len(errors) + 1
             /\ NamesMismatch(errors'[Len(errors')], it.ID[1], it.type, old)]_vars

\* ------------------------------------------------------------------- C4
\* The lines of the scope that is open after pos lines: those after the last
\* sync marker.
ScopeStart ==
  LET syncs == {k \in 1..pos : input[k].kind = "sync"} IN
  IF syncs = {} THEN 0 ELSE CHOOSE k \in syncs : \A j \in syncs : j <= k
ScopeLines == {k \in (ScopeStart + 1)..pos : input[k].kind = "feature"}

\* The IDs some line of the open scope names as Parent while no line of the
\* scope carries them as ID.
Dangling ==
  {x \in IDs :
     /\ \E i \in ScopeLines : x \in SeqToSet(input[i].Parent)
     /\ \A j \in ScopeLines : x \notin SeqToSet(input[j].ID)}

\* The next step closes the scope: a sync marker is processed, or the input
\* ends (finish, or parseRecords returning).
ScopeCloses ==
  /\ pc = "feeding"
  /\ api = "Parser" => ~eof
  /\ \/ pos = Len(input)
     \/ pos < Len(input) /\ input[pos + 1].kind = "sync"

\* C4: when a line of the scope names a Parent that no line of the scope
\* defines, closing the scope fails with an unresolved-reference error that
\* lists every such dangling ID.
C4_UnresolvedReported ==
  [][(ScopeCloses /\ Dangling # {}) =>
       \/ thrown'.kind = "unresolved references" /\ Dangling \subseteq thrown'.ids
       \/ /\ Len(errors') = Len(errors) + 1
          /\ errors'[Len(errors')].kind = "unresolved references"
          /\ Dangling \subseteq errors'[Len(errors')].ids]_vars

\* ------------------------------------------------------------------- C6
\* Input lines a..b lie in one scope.
SameScope(a, b) == \A k \in a..b : input[k].kind # "sync"

\* The Features that hold line i.
FeaturesOf(i) == {f \in 1..Len(features) : i \in SeqToSet(features[f])}

\* The position of line i in Feature f.
IndexIn(f, i) == CHOOSE k \in 1..Len(features[f]) : features[f][k] = i

C7_AtMostOnceDelivery ==
  \A j, k \in 1..Len(delivered) :
    j < k =>
      /\ delivered[j] # delivered[k]
      /\ SeqToSet(features[delivered[j]]) \cap SeqToSet(features[delivered[k]]) = {}

\* ------------------------------------------------------------------- C8
\* The Features listed by the lines of the Features of F.
KidsOf(F) ==
  UNION {SeqToSet(lines[l].child_features) \cup SeqToSet(lines[l].derived_features) :
           l \in UNION {SeqToSet(features[f]) : f \in F}}

\* F with every Feature nested inside it, at any depth.
RECURSIVE Nested(_)
Nested(F) == IF KidsOf(F) \subseteq F THEN F ELSE Nested(F \cup KidsOf(F))

\* C8: a Feature that has been passed to featureCallback is never changed
\* afterwards: no step appends a line to it or to a Feature nested inside it,
\* nor adds an entry to the lists of any of their lines.
C8_NoMutationAfterDelivery ==
  [][\A f \in Nested(SeqToSet(delivered)) :
       /\ features'[f] = features[f]
       /\ \A l \in SeqToSet(features[f]) : lines'[l] = lines[l]]_vars

\* ------------------------------------------------------------------- C9
\* All lines of Feature f report the same type.
OneType(f) == \A k \in 1..Len(features[f]) : lines[features[f][k]].type = lines[features[f][1]].type

\* C9: every Feature in the Parser's by-ID table and every delivered Feature
\* has lines of one type only, whether errorCallback throws or returns.
C9_OneTypePerFeature ==
  /\ \A id \in IDs :
       underConstructionById[id] # 0 => OneType(underConstructionById[id])
  /\ \A k \in 1..Len(delivered) : OneType(delivered[k])

\* ------------------------------------------------------------------ C10
\* C10: a fatal condition of the resolver (type mismatch, unresolved
\* references) never leaves a call other than through errorCallback.
C10_FatalThroughErrorCallback ==
  thrown.kind \in {"inconsistent types", "unresolved references"}
    => thrown \in SeqToSet(errors)

\* ------------------------------------------------------------------- C5
\* The Parser alone, fed lines that fill and overflow a small buffer: three
\* Features with an ID (one of them a child), a standalone line and the sync
\* marker.
GeneC == FL("gene", <<"c">>, <<>>, <<>>)
Standalone == FL("gene", <<>>, <<>>, <<>>)

AlphabetBuf == {GeneA, GeneC, MrnaBofA, Standalone, Sync}

InitBuf ==
  InitWith({"Parser"}, SeqsUpTo(AlphabetBuf, MaxLenBuf),
           {Finite(0), Finite(1), Finite(2)}, {TRUE}, {TRUE})

NextParser ==
  \/ AddLine
  \/ AddParsedFeatureLine
  \/ Finish

SpecBuf == InitBuf /\ [][NextParser]_vars

\* The IDs a line refers to: its own and those it links to.
Mentions(p, it) ==
  SeqToSet(it.ID) \cup SeqToSet(it.Parent)
    \cup (IF p.disableDerivesFromReferences THEN {} ELSE SeqToSet(it.Derives_from))

\* Every reference of inp lies within the buffer of Parser p: no line names
\* an ID of its scope (`seen`) that eviction has already taken out of the
\* by-ID table.
RECURSIVE WithinBuffer(_, _, _)
WithinBuffer(p, inp, seen) ==
  IF inp = <<>> \/ p.hung THEN TRUE
  ELSE LET it == Head(inp) IN
       /\ (it.kind = "feature" /\ ~p.eof)
            => \A x \in Mentions(p, it) \cap seen : p.underConstructionById[x] # 0
       /\ WithinBuffer(AddLineTo(p, it), Tail(inp),
                       IF it.kind = "sync" THEN {} ELSE seen \cup SeqToSet(it.ID))

\* Every Parent / Derives_from of inp names an ID that a line of the same
\* scope carries.
OrphanFree(p, inp) ==
  \A i \in 1..Len(inp) :
    \A x \in Mentions(p, inp[i]) \ SeqToSet(inp[i].ID) :
      \E j \in 1..Len(inp) :
        /\ x \in SeqToSet(inp[j].ID)
        /\ \A k \in 1..Len(inp) :
             ((i <= k /\ k <= j) \/ (j <= k /\ k <= i)) => inp[k].kind # "sync"

\* The delivered Features of Parser p, as the caller sees them.
ViewsOf(p) ==
  [k \in 1..Len(p.delivered) |->
     View(p.lines, p.features, p.delivered[k], Len(p.features) + 1)]

\* s and t hold the same elements, each as often.
SameBag(s, t) ==
  /\ Len(s) = Len(t)
  /\ \A x \in SeqToSet(s) \cup SeqToSet(t) : Count(s, x) = Count(t, x)

\* C5: for an orphan-free input whose references all lie within the buffer,
\* the Features delivered with a bounded buffer are those delivered with the
\* unlimited one (compared without their order, the weakest reading of "the
\* same"): bufferSize changes only when they are delivered.  Stated for
\* bufferSize >= 1; with bufferSize = 0 the first line with an ID never
\* returns.
C5_SameFeaturesAsUnlimited ==
  (/\ pc \in {"done", "hung"}
   /\ bufferSize.n >= 1
   /\ OrphanFree(P, input)
   /\ WithinBuffer(NewParser(bufferSize, disableDerivesFromReferences,
                             errorCallbackThrows), input, {}))
  => SameBag(DeliveredViews,
             ViewsOf(RunParser(input, Infinity, disableDerivesFromReferences,
                               errorCallbackThrows)))

\* ------------------------------------------------------------------ C11
\* The four construction tables of the Parser.
Tables ==
  <<underConstructionById, underConstructionTopLevel, completedReferences,
    underConstructionOrphans>>

\* The Parser as it was after the first k lines of the input.
ParserAfter(k) ==
  FeedAll(NewParser(bufferSize, disableDerivesFromReferences, errorCallbackThrows),
          SubSeq(input, 1, k))

\* Some call so far has reported a fatal error: a type mismatch went to
\* errorCallback, or a scope close threw the unresolved-reference error.
FatalReported ==
  /\ api = "Parser"
  /\ \/ errors # <<>>
     \/ \E k \in 1..pos : ParserAfter(k).exc.kind = "unresolved references"

\* C11: the line whose type mismatch is reported is a line of no Feature, and
\* once a fatal error has been reported every later addLine /
\* addParsedFeatureLine call leaves the four tables as they are and delivers
\* nothing.
C11_HaltsAfterFatalError ==
  [][/\ (api = "Parser" /\ Len(errors') > Len(errors))
          => \A f \in 1..Len(features') : Len(lines') \notin SeqToSet(features'[f])
     /\ (FatalReported /\ pos' = pos + 1)
          => Tables' = Tables /\ delivered' = delivered]_vars

\* ------------------------------------------------------------------ C12
\* C12: a scope close of the Parser (a '###' line or finish()) delivers the
\* Features of the top-level queue, each once and in queue order, and leaves
\* the by-ID table, the queue, the completed-reference table and the orphan
\* table empty, also when it reports unresolved references.
C12_ScopeCloseFlushesAndClears ==
  [][(api = "Parser" /\ ScopeCloses)
       => /\ delivered' = delivered \o underConstructionTopLevel
          /\ underConstructionTopLevel' = <<>>
          /\ \A i \in IDs :
               /\ underConstructionById'[i] = 0
               /\ completedReferences'[i] = {}
               /\ underConstructionOrphans'[i] = NoRefs]_vars

\* ------------------------------------------------------- order and buffer
\* Longest input of the ordering specification.
MaxLenOrd == 4

\* Both resolvers, fed top-level Features under three IDs (b also as a child
\* of a), a child without ID, a standalone line and the sync marker, with
\* buffers of zero, one and two Features and without limit.
MrnaB == FL("mRNA", <<"b">>, <<>>, <<>>)
PartOfA == FL("mRNA", <<>>, <<"a">>, <<>>)

AlphabetOrd == {GeneA, MrnaB, GeneC, MrnaBofA, PartOfA, Standalone, Sync}

InitOrd ==
  InitWith({"Parser", "parseRecords"}, SeqsUpTo(AlphabetOrd, MaxLenOrd),
           {Finite(0), Finite(1), Finite(2), Infinity}, {TRUE}, {TRUE})

SpecOrd == InitOrd /\ [][Next]_vars

\* The input position of the first line of Feature f.
FirstLineNo(f) == lines[features[f][1]].no

\* The first position of x in the sequence s.
FirstIdx(s, x) == CHOOSE i \in 1..Len(s) : s[i] = x /\ \A j \in 1..(i - 1) : s[j] # x

\* Feature f is a standalone singleton: its line has no ID.
IsStandalone(f) == lines[features[f][1]].ID = <<>>

\* ------------------------------------------------------------------ C13
\* C13: of any two delivered Features, standalone singletons included, the
\* one whose first line was fed first is delivered first, for every input and
\* every bufferSize.
C13_FirstSeenOrder ==
  \A A, B \in SeqToSet(delivered) :
    FirstLineNo(A) < FirstLineNo(B)
      => FirstIdx(delivered, A) < FirstIdx(delivered, B)

\* C13 as amended: the Features that went through the top-level queue are
\* delivered in the order their first lines were fed, for every input and
\* every bufferSize, and so are all the Features parseRecords returns; the
\* Parser hands over a standalone singleton at once, possibly ahead of a queued
\* Feature seen before it.
C13_QueuedFirstSeenOrder ==
  \A A, B \in SeqToSet(delivered) :
    (/\ FirstLineNo(A) < FirstLineNo(B)
     /\ api = "Parser" => ~IsStandalone(A) /\ ~IsStandalone(B))
      => FirstIdx(delivered, A) < FirstIdx(delivered, B)

\* Two queued Features went out in first-seen order after the standalone
\* line fed between them.
C13_Witness ==
  /\ pc = "done" /\ api = "Parser" /\ ~bufferSize.finite
  /\ input = <<GeneA, Standalone, GeneC>>
  /\ delivered = <<2, 1, 3>>

\* ------------------------------------------------------------------ C14
\* Longest input of the child-order specification.
MaxLenKids == 5

\* Both resolvers, fed lines of one parent and of two children of it, one
\* with an ID and one without; every line of a child carries the Parent.
AlphabetKids == {GeneA, MrnaBofA, PartOfA}

InitKids ==
  InitWith({"Parser", "parseRecords"}, SeqsUpTo(AlphabetKids, MaxLenKids),
           {Finite(1), Infinity}, {TRUE}, {TRUE})

SpecKids == InitKids /\ [][Next]_vars

\* The children listed by line l.
ChildrenOf(l) == SeqToSet(lines[l].child_features)

\* C14: in every line's child_features, a child whose first line was fed
\* before another child's first line comes before it, whether the children
\* arrived before or after the parent.
C14_ChildrenFirstSeenOrder ==
  \A l \in 1..Len(lines) : \A A, B \in ChildrenOf(l) :
    FirstLineNo(A) < FirstLineNo(B)
      => FirstIdx(lines[l].child_features, A) < FirstIdx(lines[l].child_features, B)

\* ------------------------------------------------------------ Derives_from
\* Longest input of the Derives_from specification.
MaxLenDer == 4

\* Both resolvers, with derivation resolution disabled and (the Parser)
\* enabled, fed a gene, a Feature derived from it, a derived line without ID,
\* a child, a standalone line and the sync marker.
DerivedB == FL("mRNA", <<"b">>, <<>>, <<"a">>)
DerivedOnly == FL("mRNA", <<>>, <<>>, <<"a">>)

AlphabetDer == {GeneA, DerivedB, DerivedOnly, MrnaBofA, Standalone, Sync}

InitDer ==
  InitWith({"Parser", "parseRecords"}, SeqsUpTo(AlphabetDer, MaxLenDer),
           {Finite(2), Infinity}, {TRUE, FALSE}, {TRUE})

SpecDer == InitDer /\ [][Next]_vars

\* ------------------------------------------------------------------ C15
\* The next line is a standalone line and the resolver is going to process
\* it: no ID, no Parent, and no Derives_from that the resolver looks at.
StandaloneArrives ==
  /\ pc = "feeding" /\ pos < Len(input)
  /\ api = "Parser" => ~eof
  /\ LET it == input[pos + 1] IN
       /\ it.kind = "feature" /\ it.ID = <<>> /\ it.Parent = <<>>
       /\ it.Derives_from = <<>> \/ disableDerivesFromReferences

\* C15: the call that feeds a standalone line wraps it in a new one-line
\* Feature and hands that Feature over (the Parser to featureCallback,
\* parseRecords to its result list) before it returns, and changes none of
\* the construction tables.
C15_StandaloneDeliveredAtOnce ==
  [][StandaloneArrives =>
       /\ Len(lines') = Len(lines) + 1
       /\ features' = Append(features, <<Len(lines')>>)
       /\ IF api = "Parser"
          THEN delivered' = Append(delivered, Len(features')) /\ Tables' = Tables
          ELSE /\ items' = Append(items, Len(features'))
               /\ byId' = byId /\ orphans' = orphans]_vars

\* A standalone line (here one whose only reference is a disabled
\* Derives_from) was delivered while a Feature was waiting in the queue.
C15_Witness ==
  /\ api = "Parser" /\ pc = "feeding" /\ pos = 2
  /\ input[1] = GeneA /\ input[2] = DerivedOnly
  /\ disableDerivesFromReferences
  /\ underConstructionTopLevel = <<1>>
  /\ delivered = <<2>> /\ features[2] = <<2>>

\* ------------------------------------------------------------------ C16
\* The top-level list of the resolver in use.
TopLevel == IF api = "Parser" THEN underConstructionTopLevel ELSE items

\* C16: a line that declares several IDs is a line of exactly one Feature,
\* the by-ID table holds that Feature under no ID but the first, and the
\* top-level list holds at most one entry with the line.
C16_OnlyFirstIdUsed ==
  \A l \in 1..Len(lines) :
    Len(lines[l].ID) > 1 =>
      /\ Cardinality(FeaturesOf(l)) = 1
      /\ \A k \in 2..Len(lines[l].ID) :
           ById[lines[l].ID[k]] # 0 => ById[lines[l].ID[k]] \notin FeaturesOf(l)
      /\ Cardinality({k \in 1..Len(TopLevel) : TopLevel[k] \in FeaturesOf(l)}) <= 1

\* ------------------------------------------------------------------ C17
\* The IDs that some line fed so far names as Parent.
NamedAsParent == UNION {SeqToSet(lines[l].Parent) : l \in 1..Len(lines)}

\* Feature f has been queued as top-level: it is in the top-level list or has
\* left it for the caller.
WasQueued(f) == f \in SeqToSet(TopLevel) \cup SeqToSet(delivered)

\* C17: with disableDerivesFromReferences set, in every reachable state
\* derived_features is empty on every line, the orphan table has no
\* Derives_from waiter and no entry at all for an ID named only by
\* Derives_from, a Feature started by a line with ID and Derives_from but no
\* Parent is queued as top-level, and every line still carries its
\* Derives_from values.
C17_DerivesFromIgnored ==
  disableDerivesFromReferences =>
    /\ \A l \in 1..Len(lines) :
         /\ lines[l].derived_features = <<>>
         /\ lines[l].Derives_from = input[lines[l].no].Derives_from
    /\ \A i \in IDs :
         /\ underConstructionOrphans[i].Derives_from = <<>>
         /\ i \notin NamedAsParent
              => underConstructionOrphans[i] = NoRefs /\ orphans[i] = <<>>
    /\ \A f \in 1..Len(features) :
         LET l == lines[features[f][1]] IN
         (l.ID # <<>> /\ l.Derives_from # <<>> /\ l.Parent = <<>>) => WasQueued(f)

\* With the option set, the Parser queued the derived Feature b as top-level
\* next to a and linked nothing.
C17_Witness ==
  /\ api = "Parser" /\ disableDerivesFromReferences /\ pc = "feeding"
  /\ pos = 2 /\ input[1] = DerivedB /\ input[2] = GeneA
  /\ underConstructionTopLevel = <<1, 2>>
  /\ lines[1].Derives_from = <<"a">>
  /\ lines[2].derived_features = <<>>

\* ------------------------------------------------------------------ C18
\* The Features whose first line carries the single ID x.
StartedAs(x) == {f \in 1..Len(features) : lines[features[f][1]].ID = <<x>>}

\* C18: with derivation resolution enabled and the unlimited buffer, in a
\* scope of lines of O (ID=a) and of D (ID=b;Derives_from=a) in any order,
\* after the flush D has not been delivered as top-level; when O appeared, its
\* first line lists D exactly once in derived_features and nothing in
\* child_features; when O never appeared the flush threw the
\* unresolved-reference error naming a.
C18_DerivesFromLinked ==
  (/\ pc = "done" /\ api = "Parser"
   /\ ~disableDerivesFromReferences /\ ~bufferSize.finite
   /\ OneScopeOf({GeneA, DerivedB, Standalone})
   /\ Count(input, DerivedB) >= 1)
  => /\ \A k \in 1..Len(delivered) : delivered[k] \notin StartedAs("b")
     /\ IF Count(input, GeneA) = 0
        THEN thrown.kind = "unresolved references" /\ "a" \in thrown.ids
        ELSE \A O \in StartedAs("a") :
               LET l == lines[features[O][1]] IN
               /\ l.child_features = <<>>
               /\ Len(l.derived_features) = 1
               /\ l.derived_features[1] \in StartedAs("b")

\* ------------------------------------------------------------------ C19
\* C19: with a configured bufferSize, in every state in which the Parser's
\* calls have returned, the top-level queue holds at most bufferSize Features.
C19_QueueWithinBufferSize ==
  (api = "Parser" /\ bufferSize.finite /\ pc # "hung")
    => Len(underConstructionTopLevel) <= bufferSize.n

\* A third top-level Feature arrived at a full queue of two: the oldest was
\* evicted and the queue holds two again.
C19_Witness ==
  /\ api = "Parser" /\ pc = "feeding" /\ bufferSize = Finite(2)
  /\ pos = 3 /\ input[1] = GeneA /\ input[2] = MrnaB /\ input[3] = GeneC
  /\ delivered = <<1>>
  /\ underConstructionTopLevel = <<2, 3>>

\* ------------------------------------------------------------------ C20
\* s is an initial part of t.
IsPrefix(s, t) == Len(s) <= Len(t) /\ SubSeq(t, 1, Len(s)) = s

\* The Parser is going to process a feature line.
FeatureLineArrives ==
  /\ api = "Parser" /\ pc = "feeding" /\ ~eof
  /\ pos < Len(input) /\ input[pos + 1].kind = "feature"

\* Line `it` carries a reference the Parser looks at.
HasReference(it) ==
  it.Parent # <<>> \/ (~disableDerivesFromReferences /\ it.Derives_from # <<>>)

\* C20: a feature line takes a Feature out of the top-level queue only when
\* it starts a Feature that is added to the queue (an ID not under
\* construction, no Parent or Derives_from) and the queue with that addition
\* would exceed bufferSize; a line with a reference leaves the queue as it is
\* and delivers nothing.
C20_EvictionOnlyForTopLevel ==
  [][FeatureLineArrives =>
       LET it == input[pos + 1] IN
       /\ HasReference(it)
            => /\ underConstructionTopLevel' = underConstructionTopLevel
               /\ delivered' = delivered
       /\ ~IsPrefix(underConstructionTopLevel, underConstructionTopLevel')
            => /\ ~HasReference(it)
               /\ \E k \in 1..Len(it.ID) : underConstructionById[it.ID[k]] = 0
               /\ Exceeds(Len(underConstructionTopLevel) + 1, bufferSize)]_vars

\* ------------------------------------------------------------------ C21
\* The IDs of Feature f: those of its first line.
IdsOf(f) == SeqToSet(lines[features[f][1]].ID)

DefinedEarlier ==
  {x \in IDs : \E k \in 1..ScopeStart :
     input[k].kind = "feature" /\ x \in SeqToSet(input[k].ID)}

\* Line l lists a Feature that started in a later scope.
LinkedAcrossScopes(ls, fs, l) ==
  \E c \in SeqToSet(ls[l].child_features) \cup SeqToSet(ls[l].derived_features) :
    /\ ls[l].no < ls[fs[c][1]].no
    /\ ~SameScope(ls[l].no, ls[fs[c][1]].no)

\* C22: no line of the Parser ever lists a child or derived Feature that
\* started after a later sync boundary, and when a scope closes while one of
\* its lines names an ID that only an earlier scope defined, the close throws
\* the unresolved-reference error naming that ID.
C22_ScopesIsolated ==
  [][/\ api = "Parser"
          => \A l \in 1..Len(lines') : ~LinkedAcrossScopes(lines', features', l)
     /\ (api = "Parser" /\ ScopeCloses /\ Dangling \cap DefinedEarlier # {})
          => /\ thrown'.kind = "unresolved references"
             /\ Dangling \cap DefinedEarlier \subseteq thrown'.ids]_vars

\* The gene of the first scope went out without the child that named it in
\* the second scope, and the final flush reported the reference.
C22_Witness ==
  /\ api = "Parser" /\ pc = "done"
  /\ input = <<GeneA, Sync, MrnaBofA>>
  /\ delivered = <<1>> /\ lines[1].child_features = <<>>
  /\ thrown = UnresolvedMsg({"a"})

\* ------------------------------------------------------------------ C23
\* The step is a call of finish().
FinishCalled == api = "Parser" /\ pc = "feeding" /\ pc' = "done"

\* C23: endCallback is invoked only by finish() and once per call, at a
\* point where the whole queue has been delivered in order and emptied and
\* no error was raised; a finish() whose flush throws the
\* unresolved-reference error does not invoke it.
C23_EndCallbackAfterFlush ==
  [][/\ ended' # ended
          => /\ FinishCalled
             /\ pos = Len(input)
             /\ ended' = ended + 1
             /\ delivered' = delivered \o underConstructionTopLevel
             /\ underConstructionTopLevel' = <<>>
             /\ thrown' = NoExc
     /\ (FinishCalled /\ thrown'.kind = "unresolved references")
          => ended' = ended]_vars

\* finish() delivered a gene that was still queued and then called
\* endCallback.
C23_Witness ==
  /\ api = "Parser" /\ pc = "done" /\ bufferSize = Infinity
  /\ input = <<GeneA, MrnaBofA>>
  /\ delivered = <<1>> /\ lines[1].child_features = <<2>>
  /\ ended = 1 /\ thrown = NoExc

\* ------------------------------------------------------------------ C24
\* Longest input of the FASTA specification.
MaxLenFasta == 4

\* The Parser, fed a gene, a child of it, a child of an ID that never comes,
\* the FASTA directive and a FASTA header line, with a buffer of one Feature
\* and without limit.
Fasta == Other("FASTA")
FastaStart == Other("fastaStart")

AlphabetFasta == {GeneA, MrnaBofA, PartOfB, Fasta, FastaStart}

InitFasta ==
  InitWith({"Parser"}, SeqsUpTo(AlphabetFasta, MaxLenFasta),
           {Finite(1), Infinity}, {TRUE}, {TRUE})

SpecFasta == InitFasta /\ [][NextParser]_vars

\* The input lines that are FASTA boundaries.
IsFastaBoundary(it) == it.kind \in {"FASTA", "fastaStart"}

\* A FASTA boundary is among the lines fed so far.
AfterFastaBoundary == \E k \in 1..pos : IsFastaBoundary(input[k])

\* C24: feeding a FASTA boundary delivers the whole queue; every feed call
\* after it delivers nothing and leaves the queue, the three tables and the
\* line counter as they were; and no delivered Feature has a line that came
\* after the boundary.
C24_FastaEndsParsing ==
  [][/\ (pc = "feeding" /\ pos' = pos + 1 /\ ~eof /\ IsFastaBoundary(input[pos + 1]))
          => /\ delivered' = delivered \o underConstructionTopLevel
             /\ underConstructionTopLevel' = <<>>
     /\ (pc = "feeding" /\ pos' = pos + 1 /\ AfterFastaBoundary)
          => UNCHANGED <<delivered, lineNumber, Tables>>
     /\ \A f \in SeqToSet(delivered') :
          \A j \in 1..Len(features'[f]) :
            \A k \in 1..pos' :
              IsFastaBoundary(input[k]) => lines'[features'[f][j]].no < k]_vars

\* ------------------------------------------------------------------ C26
\* The IDs whose Feature started in the open scope and has been delivered,
\* at top level or nested in a delivered Feature.
DeliveredIds ==
  {x \in IDs : \E f \in Nested(SeqToSet(delivered)) :
     x \in IdsOf(f) /\ ScopeStart < FirstLineNo(f)}

\* C26: once the Feature of an ID has been delivered, a feature line of the
\* same scope never puts a Feature under that ID into the by-ID table or a
\* Feature with that ID into the top-level queue.
C26_NoReentryPerId ==
  [][FeatureLineArrives
       => \A x \in DeliveredIds :
            /\ underConstructionById'[x] \in {0, underConstructionById[x]}
            /\ \A g \in SeqToSet(underConstructionTopLevel')
                          \ SeqToSet(underConstructionTopLevel) :
                 x \notin SeqToSet(lines'[features'[g][1]].ID)]_vars

\* ------------------------------------------------------------------ C27
\* The Features waiting for ID x in the orphan table of the resolver in use,
\* as Parent and as Derives_from references.
WaitingOn(x) ==
  IF api = "Parser"
  THEN SeqToSet(underConstructionOrphans[x].Parent)
         \cup SeqToSet(underConstructionOrphans[x].Derives_from)
  ELSE SeqToSet(orphans[x])

\* The resolver is going to process a feature line; x is an ID the line
\* registers (parseRecords looks at the first ID only) and no Feature is
\* under construction for x.
DefinesNew(x) ==
  /\ pc = "feeding" /\ pos < Len(input)
  /\ api = "Parser" => ~eof
  /\ input[pos + 1].kind = "feature"
  /\ ById[x] = 0
  /\ IF api = "Parser" THEN x \in SeqToSet(input[pos + 1].ID)
     ELSE input[pos + 1].ID # <<>> /\ x = input[pos + 1].ID[1]

\* C27: after every call no ID has both a Feature in the by-ID table and an
\* entry in the orphan table; and a line that defines a new ID x, processed
\* without an error, gets every Feature that waited for x in its
\* child_features or derived_features while the orphan entry of x is deleted
\* in the same step.
C27_NoIdInByIdAndOrphans ==
  [][/\ \A x \in IDs : ById'[x] # 0 => WaitingOn(x)' = {}
     /\ \A x \in IDs :
          (DefinesNew(x) /\ thrown' = NoExc /\ pc' # "hung")
            => /\ WaitingOn(x)' = {}
               /\ WaitingOn(x) \subseteq
                    SeqToSet(lines'[Len(lines')].child_features)
                      \cup SeqToSet(lines'[Len(lines')].derived_features)]_vars

\* The child came first and waited for a; the line of a took it over and the
\* orphan entry is gone.
C27_Witness ==
  /\ api = "Parser" /\ pc = "feeding" /\ pos = 2
  /\ input[1] = MrnaBofA /\ input[2] = GeneA
  /\ underConstructionById["a"] = 2
  /\ lines[2].child_features = <<1>>
  /\ underConstructionOrphans["a"] = NoRefs

\* ------------------------------------------------------------------ C28
\* C28: no Feature of the Parser's top-level queue is listed in its orphan
\* table, as a Parent or as a Derives_from reference.
C28_QueuedNeverOrphan ==
  api = "Parser"
    => \A f \in SeqToSet(underConstructionTopLevel) :
         \A x \in IDs : f \notin WaitingOn(x)

\* ------------------------------------------------------- util: strings
\* A string is the sequence of its UTF-16 code units.  The characters the
\* functions of util look for:
Tab == 9
LineFeed == 10
CarriageReturn == 13
Percent == 37
Comma == 44
Semicolon == 59
EqualsSign == 61

\* [0-9A-Fa-f]
IsHexDigit(c) == c \in 48..57 \/ c \in 65..70 \/ c \in 97..102

\* parseInt on one hexadecimal digit
HexVal(c) ==
  IF c \in 48..57 THEN c - 48 ELSE IF c \in 65..70 THEN c - 55 ELSE c - 87

\* n.toString(16).toUpperCase() for n in 0..15
HexDigit(n) == IF n < 10 THEN 48 + n ELSE 55 + n

\* attrEscapeRegex: [\n;\r\t=%&,\u0000-\u001f\u007f-ÿ]
AttrEscaped(c) ==
  c \in {LineFeed, Semicolon, CarriageReturn, Tab, EqualsSign, Percent, 38, Comma}
    \/ c \in 0..31 \/ c \in 127..255

\* A replacement without padStart: one digit for the characters below 16.
EscapeCharUnpadded(c) ==
  IF c < 16 THEN <<Percent, HexDigit(c)>>
  ELSE <<Percent, HexDigit(c \div 16), HexDigit(c % 16)>>

\* The replacement _escape computes for one matched character:
\* '%' + ch.charCodeAt(0).toString(16).toUpperCase().padStart(2, '0')
EscapeChar(c) == <<Percent, HexDigit(c \div 16), HexDigit(c % 16)>>

\* escape(rawVal) = _escape(attrEscapeRegex, rawVal)
RECURSIVE escape(_)
escape(s) ==
  IF s = <<>> THEN <<>>
  ELSE (IF AttrEscaped(Head(s)) THEN EscapeChar(Head(s)) ELSE <<Head(s)>>)
         \o escape(Tail(s))

\* stringVal.replaceAll(/%([0-9A-Fa-f]{2})/g, (m, seq) =>
\*   String.fromCharCode(parseInt(seq, 16)))
RECURSIVE ReplaceAllEscapes(_)
ReplaceAllEscapes(s) ==
  IF s = <<>> THEN <<>>
  ELSE IF Head(s) = Percent /\ Len(s) >= 3 /\ IsHexDigit(s[2]) /\ IsHexDigit(s[3])
  THEN <<16 * HexVal(s[2]) + HexVal(s[3])>> \o ReplaceAllEscapes(SubSeq(s, 4, Len(s)))
  ELSE <<Head(s)>> \o ReplaceAllEscapes(Tail(s))

\* unescape of src/src/util.ts
UnescapeReplaceAll(s) ==
  IF Percent \notin SeqToSet(s) THEN s ELSE ReplaceAllEscapes(s)

\* HEX_LOOKUP has the two digits as a key: the table is filled with the
\* upper-case and the lower-case spelling of every byte, not with mixed ones.
InHexLookup(a, b) ==
  /\ IsHexDigit(a) /\ IsHexDigit(b)
  /\ ~(a \in 65..70 /\ b \in 97..102)
  /\ ~(a \in 97..102 /\ b \in 65..70)

\* The while loop of the table-driven unescape, on the rest of the string:
\* a '%' with two characters after it consumes three characters, decoded
\* when the table has them and copied otherwise.
RECURSIVE UnescapeLookupFrom(_)
UnescapeLookupFrom(s) ==
  IF s = <<>> THEN <<>>
  ELSE IF Head(s) = Percent /\ Len(s) >= 3
  THEN (IF InHexLookup(s[2], s[3])
        THEN <<16 * HexVal(s[2]) + HexVal(s[3])>>
        ELSE SubSeq(s, 1, 3))
         \o UnescapeLookupFrom(SubSeq(s, 4, Len(s)))
  ELSE <<Head(s)>> \o UnescapeLookupFrom(Tail(s))

\* unescape of src/unnamed/part_003
UnescapeLookup(s) ==
  IF Percent \notin SeqToSet(s) THEN s ELSE UnescapeLookupFrom(s)

\* What a function returns in place of a string when it throws URIError.
URIError == <<-1>>

\* x followed by rest, unless the rest of the computation threw.
Then(x, rest) == IF rest = URIError THEN URIError ELSE x \o rest

\* The byte that the three characters at s[i] spell as %XX, or -1.
ByteAt(s, i) ==
  IF i + 2 <= Len(s) /\ s[i] = Percent /\ IsHexDigit(s[i + 1]) /\ IsHexDigit(s[i + 2])
  THEN 16 * HexVal(s[i + 1]) + HexVal(s[i + 2])
  ELSE -1

\* The UTF-16 code units of code point cp.
Utf16(cp) ==
  IF cp < 65536 THEN <<cp>>
  ELSE <<55296 + ((cp - 65536) \div 1024), 56320 + ((cp - 65536) % 1024)>>

\* decodeURIComponent from position i on: an escape sequence stands for one
\* octet, and the octets must spell well-formed UTF-8; everything else
\* throws URIError.
RECURSIVE DecodeURIComponentFrom(_, _)
DecodeURIComponentFrom(s, i) ==
  IF i > Len(s) THEN <<>>
  ELSE IF s[i] # Percent THEN Then(<<s[i]>>, DecodeURIComponentFrom(s, i + 1))
  ELSE LET b == ByteAt(s, i) IN
       IF b = -1 THEN URIError
       ELSE IF b < 128 THEN Then(<<b>>, DecodeURIComponentFrom(s, i + 3))
       ELSE LET n == IF b \in 192..223 THEN 2
                     ELSE IF b \in 224..239 THEN 3
                     ELSE IF b \in 240..247 THEN 4 ELSE 0
                c == [k \in 1..3 |-> IF k < n THEN ByteAt(s, i + 3 * k) ELSE 128]
                cp == IF n = 2 THEN (b - 192) * 64 + (c[1] - 128)
                      ELSE IF n = 3
                      THEN (b - 224) * 4096 + (c[1] - 128) * 64 + (c[2] - 128)
                      ELSE (b - 240) * 262144 + (c[1] - 128) * 4096
                             + (c[2] - 128) * 64 + (c[3] - 128)
                wellFormed ==
                  IF n = 2 THEN cp >= 128
                  ELSE IF n = 3 THEN cp >= 2048 /\ cp \notin 55296..57343
                  ELSE cp \in 65536..1114111
            IN IF n = 0 \/ (\E k \in 1..3 : c[k] \notin 128..191) \/ ~wellFormed
               THEN URIError
               ELSE Then(Utf16(cp), DecodeURIComponentFrom(s, i + 3 * n))

\* unescape of src/unnamed/part_002
unescape(s) ==
  IF Percent \notin SeqToSet(s) THEN s ELSE DecodeURIComponentFrom(s, 1)

\* The unescape of the revision in use.
UnescapeOf(version, s) ==
  CASE version = "util.ts" -> UnescapeReplaceAll(s)
    [] version = "part_003" -> UnescapeLookup(s)
    [] version = "part_002" -> unescape(s)

\* ------------------------------------------------- util: feature lines
\* Positions are those of the code: the first character is at index 0.
\* s.indexOf(c, from), -1 when there is none
IndexOf(s, c, from) ==
  LET hits == {i \in from..(Len(s) - 1) : s[i + 1] = c} IN
  IF hits = {} THEN -1 ELSE CHOOSE i \in hits : \A j \in hits : i <= j

\* s.slice(a, b)
Slice(s, a, b) == SubSeq(s, a + 1, b)

\* s.split(c)
RECURSIVE Split(_, _)
Split(s, c) ==
  LET k == IndexOf(s, c, 0) IN
  IF k = -1 THEN <<s>>
  ELSE <<Slice(s, 0, k)>> \o Split(Slice(s, k + 1, Len(s)), c)

\* The string '.', null, NaN and undefined.
Dot == <<46>>
Null == <<-2>>
NaN == <<-3>>
Undefined == <<-4>>

\* The line terminator parseAttributes cuts off the attribute string.
StripLineEnd(attrString) ==
  LET len == Len(attrString) IN
  IF attrString[len] = LineFeed
  THEN IF len >= 2 /\ attrString[len - 1] = CarriageReturn
       THEN Slice(attrString, 0, len - 2)
       ELSE Slice(attrString, 0, len - 1)
  ELSE attrString

\* attrs[tag] gets the values vals: a new entry, or more values for the tag.
PushValues(attrs, tag, vals) ==
  IF \E k \in 1..Len(attrs) : attrs[k].tag = tag
  THEN [k \in 1..Len(attrs) |->
          IF attrs[k].tag = tag THEN [attrs[k] EXCEPT !.values = @ \o vals]
          ELSE attrs[k]]
  ELSE Append(attrs, [tag |-> tag, values |-> vals])

\* The inner loop of parseAttributes: the values between valStart and
\* semiIdx, separated by commas, each unescaped; empty ones are skipped.
RECURSIVE UnescapedValues(_, _, _)
UnescapedValues(a, valStart, semiIdx) ==
  IF valStart >= semiIdx THEN <<>>
  ELSE LET c == IndexOf(a, Comma, valStart)
           commaIdx == IF c = -1 \/ c > semiIdx THEN semiIdx ELSE c
           rest == UnescapedValues(a, commaIdx + 1, semiIdx)
       IN IF commaIdx > valStart
          THEN <<unescape(Slice(a, valStart, commaIdx))>> \o rest
          ELSE rest

\* The outer loop of parseAttributes: one tag=value record per ';'.
RECURSIVE UnescapedRecords(_, _, _)
UnescapedRecords(a, start, attrs) ==
  IF start >= Len(a) THEN attrs
  ELSE LET s0 == IndexOf(a, Semicolon, start)
           semiIdx == IF s0 = -1 THEN Len(a) ELSE s0
           eqIdx == IndexOf(a, EqualsSign, start)
       IN UnescapedRecords(a, semiIdx + 1,
            IF semiIdx > start /\ eqIdx # -1 /\ eqIdx < semiIdx /\ eqIdx + 1 < semiIdx
            THEN PushValues(attrs, Slice(a, start, eqIdx),
                            UnescapedValues(a, eqIdx + 1, semiIdx))
            ELSE attrs)

\* What parseAttributes and its callers hand back: the object (its entries in
\* the order the tags first appeared), null, or the error thrown.
Attrs(kind, entries) == [kind |-> kind, entries |-> entries]

\* parseAttributes
parseAttributes(attrString) ==
  IF Len(attrString) = 0 \/ attrString = Dot THEN Attrs("object", <<>>)
  ELSE LET entries == UnescapedRecords(StripLineEnd(attrString), 0, <<>>) IN
       IF \E k \in 1..Len(entries) : URIError \in SeqToSet(entries[k].values)
       THEN Attrs("URIError", <<>>)
       ELSE Attrs("object", entries)

\* The inner loop of parseAttributesNoUnescape.
RECURSIVE RawValues(_, _, _)
RawValues(a, valStart, semiIdx) ==
  IF valStart >= semiIdx THEN <<>>
  ELSE LET c == IndexOf(a, Comma, valStart)
           commaIdx == IF c = -1 \/ c > semiIdx THEN semiIdx ELSE c
           rest == RawValues(a, commaIdx + 1, semiIdx)
       IN IF commaIdx > valStart
          THEN <<Slice(a, valStart, commaIdx)>> \o rest
          ELSE rest

\* The outer loop of parseAttributesNoUnescape.
RECURSIVE RawRecords(_, _, _)
RawRecords(a, start, attrs) ==
  IF start >= Len(a) THEN attrs
  ELSE LET s0 == IndexOf(a, Semicolon, start)
           semiIdx == IF s0 = -1 THEN Len(a) ELSE s0
           eqIdx == IndexOf(a, EqualsSign, start)
       IN RawRecords(a, semiIdx + 1,
            IF semiIdx > start /\ eqIdx # -1 /\ eqIdx < semiIdx /\ eqIdx + 1 < semiIdx
            THEN PushValues(attrs, Slice(a, start, eqIdx),
                            RawValues(a, eqIdx + 1, semiIdx))
            ELSE attrs)

\* A fast path that forgets to cut the line terminator off.
parseAttributesNoUnescapeKeepsLineEnd(attrString) ==
  IF Len(attrString) = 0 \/ attrString = Dot THEN Attrs("object", <<>>)
  ELSE Attrs("object", RawRecords(attrString, 0, <<>>))

\* parseAttributesNoUnescape
parseAttributesNoUnescape(attrString) ==
  IF Len(attrString) = 0 \/ attrString = Dot THEN Attrs("object", <<>>)
  ELSE Attrs("object", RawRecords(StripLineEnd(attrString), 0, <<>>))

\* normUnescape; s.length throws TypeError when the column is missing
normUnescape(s) ==
  IF s = Undefined THEN Undefined
  ELSE IF Len(s) = 0 \/ s = Dot THEN Null ELSE unescape(s)

\* norm
norm(s) ==
  IF s = Undefined THEN Undefined
  ELSE IF Len(s) = 0 \/ s = Dot THEN Null ELSE s

\* The value of a string of decimal digits.
RECURSIVE Decimal(_)
Decimal(s) ==
  IF s = <<>> THEN 0 ELSE 10 * Decimal(SubSeq(s, 1, Len(s) - 1)) + (s[Len(s)] - 48)

\* The start, end and score columns: null, or unary plus on the string,
\* which is the number a string of digits spells and NaN for a string with a
\* letter in it (the only two shapes the lines checked here carry).
Numeric(s) ==
  IF s = Undefined THEN Undefined
  ELSE IF Len(s) = 0 \/ s = Dot THEN Null
  ELSE IF \A k \in 1..Len(s) : s[k] \in 48..57 THEN <<Decimal(s)>>
  ELSE NaN

\* f[k] of the split line (k counted from 0), undefined beyond its end.
Column(f, k) == IF k < Len(f) THEN f[k + 1] ELSE Undefined

\* The FeatureLine a parse function returns, or the error it throws: the
\* first one in the order the object literal evaluates its properties.
FeatureLineOf(cols, attributes) ==
  LET outcomes == cols \o <<IF attributes.kind = "TypeError" THEN Undefined
                            ELSE IF attributes.kind = "URIError" THEN URIError
                            ELSE <<>> >>
      bad == {k \in 1..9 : outcomes[k] \in {Undefined, URIError}}
      first == CHOOSE k \in bad : \A j \in bad : k <= j
      threw == IF bad = {} THEN "none"
               ELSE IF outcomes[first] = Undefined THEN "TypeError" ELSE "URIError"
  IN IF threw = "none"
     THEN [threw |-> "none", seq_id |-> cols[1], source |-> cols[2],
           type |-> cols[3], start |-> cols[4], end |-> cols[5],
           score |-> cols[6], strand |-> cols[7], phase |-> cols[8],
           attributes |-> attributes]
     ELSE [threw |-> threw, seq_id |-> Null, source |-> Null, type |-> Null,
           start |-> Null, end |-> Null, score |-> Null, strand |-> Null,
           phase |-> Null, attributes |-> Attrs("null", <<>>)]

\* parseFeature
parseFeature(line) ==
  LET f == Split(line, Tab)
      attrString == Column(f, 8)
  IN FeatureLineOf(
       <<normUnescape(Column(f, 0)), normUnescape(Column(f, 1)),
         normUnescape(Column(f, 2)), Numeric(Column(f, 3)), Numeric(Column(f, 4)),
         Numeric(Column(f, 5)), norm(Column(f, 6)), norm(Column(f, 7))>>,
       IF attrString = Undefined THEN Attrs("TypeError", <<>>)
       ELSE IF Len(attrString) = 0 \/ attrString = Dot THEN Attrs("null", <<>>)
       ELSE parseAttributes(attrString))

\* parseFeatureNoUnescape
parseFeatureNoUnescape(line) ==
  LET f == Split(line, Tab)
      attrString == Column(f, 8)
  IN FeatureLineOf(
       <<norm(Column(f, 0)), norm(Column(f, 1)), norm(Column(f, 2)),
         Numeric(Column(f, 3)), Numeric(Column(f, 4)), Numeric(Column(f, 5)),
         norm(Column(f, 6)), norm(Column(f, 7))>>,
       IF attrString = Undefined THEN Attrs("TypeError", <<>>)
       ELSE IF Len(attrString) = 0 \/ attrString = Dot THEN Attrs("null", <<>>)
       ELSE parseAttributesNoUnescape(attrString))

\* hasEscapes of a LineRecord: line.includes('%')
HasEscapes(line) == Percent \in SeqToSet(line)

\* ------------------------------------- util: parseAttributes of util.ts
\* WhiteSpace and LineTerminator code units, which String.prototype.trim
\* removes.
IsWhiteSpace(c) ==
  c \in {9, 10, 11, 12, 13, 32, 160, 5760, 8232, 8233, 8239, 8287, 12288, 65279}
    \/ c \in 8192..8202

\* s.trim()
RECURSIVE TrimStart(_)
TrimStart(s) ==
  IF s # <<>> /\ IsWhiteSpace(Head(s)) THEN TrimStart(Tail(s)) ELSE s
RECURSIVE TrimEnd(_)
TrimEnd(s) ==
  IF s # <<>> /\ IsWhiteSpace(s[Len(s)]) THEN TrimEnd(SubSeq(s, 1, Len(s) - 1)) ELSE s
Trim(s) == TrimEnd(TrimStart(s))

\* for (const s of value.split(',')) arec.push(unescape(s.trim()))
TrimmedValues(fields) ==
  [k \in 1..Len(fields) |-> UnescapeReplaceAll(Trim(fields[k]))]

\* The loop over str.split(';'): a record without '=' or with nothing after
\* it is skipped; the tag is trimmed, and every field of the value is
\* trimmed, unescaped and pushed.
SplitRecords(recs, attrs) ==
  LET Step[k \in 0..Len(recs)] ==
        IF k = 0 THEN attrs
        ELSE LET a == recs[k]
                 eqIdx == IndexOf(a, EqualsSign, 0)
                 value == Slice(a, eqIdx + 1, Len(a))
             IN IF eqIdx = -1 \/ Len(value) = 0 THEN Step[k - 1]
                ELSE PushValues(Step[k - 1], Trim(Slice(a, 0, eqIdx)),
                                TrimmedValues(Split(value, Comma)))
  IN Step[Len(recs)]

\* parseAttributes of src/src/util.ts
parseAttributesSplit(attrString) ==
  IF Len(attrString) = 0 \/ attrString = Dot THEN Attrs("object", <<>>)
  ELSE Attrs("object",
             SplitRecords(Split(StripLineEnd(attrString), Semicolon), <<>>))

\* parseAttributes of the revision in use.
ParseAttributesOf(version, attrString) ==
  IF version = "util.ts" THEN parseAttributesSplit(attrString)
  ELSE parseAttributes(attrString)

\* ------------------------------------------------ util: specification
\* Longest attribute column (without its line terminator) and longest
\* attribute value of the specification of the util functions.
MaxAttrLen == 4
MaxValueLen == 3

\* The columns joined by tabs.
RECURSIVE JoinTabs(_)
JoinTabs(cols) ==
  IF Len(cols) = 1 THEN cols[1]
  ELSE cols[1] \o <<Tab>> \o JoinTabs(Tail(cols))

\* The characters of the attribute columns: a = ; , % 4
AttrChars == {97, EqualsSign, Semicolon, Comma, Percent, 52}

\* The characters of the attribute values: a ; % 4 tab, e with acute
\* accent (U+00E9) and A with macron (U+0100)
ValueChars == {97, Semicolon, Percent, 52, Tab, 233, 256}

\* The feature lines: seq_id c or c%44, source '.', type g, start 44 or x,
\* end 4, score '.', strand +, an empty phase, every attribute column with no
\* terminator, with \n and with \r\n; and one line that lacks the ninth
\* column.
FeatureLines ==
  {JoinTabs(<<seq_id, Dot, <<103>>, start, <<52>>, Dot, <<43>>, <<>>,
              attrs \o eol>>) :
     seq_id \in {<<99>>, <<99, Percent, 52, 52>>},
     start \in {<<52, 52>>, <<120>>},
     attrs \in SeqsUpTo(AttrChars, MaxAttrLen),
     eol \in {<<>>, <<LineFeed>>, <<CarriageReturn, LineFeed>>}}
  \cup {JoinTabs(<<<<99>>, Dot, <<103>>, <<52>>, <<52>>, Dot, <<43>>, <<>> >>)}

\* The characters of the attribute strings handed to parseAttributes on its
\* own: space a = , ;
SpacedAttrChars == {32, 97, EqualsSign, Comma, Semicolon}

\* The attribute column of the test 'can parse some whitespace':
\* ' multivalue = val1,val2, val3;testing = blah'
WhitespaceExample ==
  <<32, 109, 117, 108, 116, 105, 118, 97, 108, 117, 101, 32, 61, 32,
    118, 97, 108, 49, 44, 118, 97, 108, 50, 44, 32, 118, 97, 108, 51,
    59, 116, 101, 115, 116, 105, 110, 103, 32, 61, 32, 98, 108, 97, 104>>

\* --------------------------------------------- parseRecords: lineHash
\* record.lineHash: undefined, a string or a number.
NoLineHash == [number |-> FALSE, v |-> Undefined]
StringHash(s) == [number |-> FALSE, v |-> s]
NumberHash(n) == [number |-> TRUE, v |-> n]

\* The decimal digits of a natural number.
RECURSIVE Digits(_)
Digits(n) == IF n < 10 THEN <<48 + n>> ELSE Digits(n \div 10) \o <<48 + (n % 10)>>

\* String(record.lineHash)
StringOf(h) == IF h.number THEN Digits(h.v) ELSE h.v

\* The attribute tags _lineHash and ID.
LineHashTag == <<95, 108, 105, 110, 101, 72, 97, 115, 104>>
IdTag == <<73, 68>>

\* attrs[tag] = vals
SetValues(attrs, tag, vals) ==
  IF \E k \in 1..Len(attrs) : attrs[k].tag = tag
  THEN [k \in 1..Len(attrs) |->
          IF attrs[k].tag = tag THEN [attrs[k] EXCEPT !.values = vals] ELSE attrs[k]]
  ELSE Append(attrs, [tag |-> tag, values |-> vals])

\* A lineHash step that assumes the attributes object is there:
\* featureLine.attributes._lineHash = ... on null throws TypeError.
WithLineHashNoCreate(fl, h) ==
  IF fl.threw # "none" \/ h = NoLineHash THEN fl
  ELSE IF fl.attributes.kind = "null"
  THEN FeatureLineOf(<<Null, Null, Null, Null, Null, Null, Null, Null>>,
                     Attrs("TypeError", <<>>))
  ELSE [fl EXCEPT !.attributes =
          Attrs("object", SetValues(fl.attributes.entries, LineHashTag, <<StringOf(h)>>))]

\* if (record.lineHash !== undefined) { if (!featureLine.attributes)
\* featureLine.attributes = {}; featureLine.attributes._lineHash =
\* [String(record.lineHash)] }
WithLineHash(fl, h) ==
  IF fl.threw # "none" \/ h = NoLineHash THEN fl
  ELSE [fl EXCEPT !.attributes =
          Attrs("object",
                SetValues(IF fl.attributes.kind = "null" THEN <<>>
                          ELSE fl.attributes.entries,
                          LineHashTag, <<StringOf(h)>>))]

\* The lineHash values of the records: none, 'hash123' and 456.
LineHashes == {NoLineHash, StringHash(<<104, 97, 115, 104, 49, 50, 51>>), NumberHash(456)}

\* The lines of the records with a lineHash: attribute column '.', empty,
\* ID=a, ID=%44, _lineHash=a, and a line that lacks the ninth column.
HashLines ==
  {JoinTabs(<<<<99>>, Dot, <<103>>, <<52>>, <<52>>, Dot, <<43>>, <<>>, attrs>>) :
     attrs \in {Dot, <<>>, IdTag \o <<EqualsSign, 97>>,
                IdTag \o <<EqualsSign, Percent, 52, 52>>,
                LineHashTag \o <<EqualsSign, 97>>}}
  \cup {JoinTabs(<<<<99>>, Dot, <<103>>, <<52>>, <<52>>, Dot, <<43>>, <<>> >>)}

\* A caller of util on its own: parseRecords' choice of parse function for
\* one record (the revision of part_002), escape followed by the unescape
\* of the same revision (the two revisions that have an escape), or
\* parseAttributes (split-based in util.ts, index-based in part_002), or the
\* head of one iteration of parseRecords on a record with its lineHash
\* (input holds the lineHash, str the line).
InitUtil ==
  /\ Constructed({"decode", "roundTrip", "parseAttributes", "record"},
                 {<<>>} \cup {<<h>> : h \in LineHashes},
                 {Infinity}, {TRUE}, {TRUE})
  /\ api = "record" <=> input # <<>>
  /\ result = <<>>
  /\ \/ /\ api = "decode"
        /\ str \in FeatureLines
        /\ unescapeVersion = "part_002"
     \/ /\ api = "roundTrip"
        /\ str \in SeqsUpTo(ValueChars, MaxValueLen)
        /\ unescapeVersion \in {"util.ts", "part_003"}
     \/ /\ api = "record"
        /\ str \in HashLines
        /\ unescapeVersion = "part_002"
     \/ /\ api = "parseAttributes"
        /\ str \in SeqsUpTo(SpacedAttrChars, MaxAttrLen) \cup {WhitespaceExample}
        /\ unescapeVersion \in {"util.ts", "part_002"}

\* The frame of the util actions: the resolver is not involved.
ResolverUnchanged ==
  UNCHANGED <<api, input, pos, bufferSize, disableDerivesFromReferences,
              errorCallbackThrows, eof, lineNumber, underConstructionTopLevel,
              underConstructionById, completedReferences,
              underConstructionOrphans, lines, features, delivered, errors,
              thrown, ended, others, items, byId, orphans, str, unescapeVersion>>

\* record.hasEscapes ? parseFeature(record.line)
\*                   : parseFeatureNoUnescape(record.line)
DecodeRecord ==
  /\ api = "decode" /\ pc = "feeding"
  /\ result' = IF HasEscapes(str) THEN parseFeature(str)
               ELSE parseFeatureNoUnescape(str)
  /\ pc' = "done"
  /\ ResolverUnchanged

\* escape(x)
EscapeValue ==
  /\ api = "roundTrip" /\ pc = "feeding"
  /\ result' = escape(str)
  /\ pc' = "escaped"
  /\ ResolverUnchanged

\* unescape(...) of what escape returned
UnescapeValue ==
  /\ api = "roundTrip" /\ pc = "escaped"
  /\ result' = UnescapeOf(unescapeVersion, result)
  /\ pc' = "done"
  /\ ResolverUnchanged

\* parseAttributes(attrString)
ParseAttributesCall ==
  /\ api = "parseAttributes" /\ pc = "feeding"
  /\ result' = ParseAttributesOf(unescapeVersion, str)
  /\ pc' = "done"
  /\ ResolverUnchanged

\* The head of one iteration of parseRecords: the line is parsed and the
\* record's lineHash is stored in the attributes.
ParseRecordLine ==
  /\ api = "record" /\ pc = "feeding"
  /\ result' = WithLineHash(IF HasEscapes(str) THEN parseFeature(str)
                            ELSE parseFeatureNoUnescape(str), input[1])
  /\ pc' = "done"
  /\ ResolverUnchanged

NextUtil ==
  \/ ParseRecordLine
  \/ DecodeRecord
  \/ EscapeValue
  \/ UnescapeValue
  \/ ParseAttributesCall

SpecUtil == InitUtil /\ [][NextUtil]_vars

\* ------------------------------------------------------------------ C29
\* C29: for a feature line without '%', the FeatureLine parseRecords gets
\* from the fast path (parseFeatureNoUnescape) is the one the unescaping
\* path (parseFeature) returns for that line, or both throw the same error.
C29_FastPathSameAsSlowPath ==
  (api = "decode" /\ pc = "done" /\ ~HasEscapes(str))
    => result = parseFeature(str)

\* A line without '%' went through the fast path: its attribute column
\* a=,4 with a \r\n terminator gave the tag a the one value 4.
C29_Witness ==
  /\ api = "decode" /\ pc = "done"
  /\ str = JoinTabs(<<<<99>>, Dot, <<103>>, <<52, 52>>, <<52>>, Dot, <<43>>, <<>>,
                      <<97, EqualsSign, Comma, 52, CarriageReturn, LineFeed>> >>)
  /\ result.threw = "none"
  /\ result.seq_id = <<99>> /\ result.source = Null /\ result.start = <<44>>
  /\ result.attributes =
       Attrs("object", <<[tag |-> <<97>>, values |-> <<<<52>>>>]>>)

\* ------------------------------------------------------------------ C30
\* C30: for every attribute value x, unescape(escape(x)) is x, in each
\* revision of util that has both functions.
C30_RoundTrip ==
  (api = "roundTrip" /\ pc = "done") => result = str

\* The value ; e-acute % went through escape (%3B%E9%25) and came back.
C30_Witness ==
  /\ api = "roundTrip" /\ pc = "done" /\ unescapeVersion = "part_003"
  /\ str = <<Semicolon, 233, Percent>>
  /\ result = <<Semicolon, 233, Percent>>

\* ------------------------------------------------------------------ C31
\* C31: parseAttributes stores no tag and no value with whitespace at its
\* start or end, and the attribute column of the whitespace test parses to
\* multivalue -> [val1, val2, val3], testing -> [blah].
C31_TagsAndValuesTrimmed ==
  (api = "parseAttributes" /\ pc = "done")
    => /\ \A k \in 1..Len(result.entries) :
            /\ result.entries[k].tag = Trim(result.entries[k].tag)
            /\ \A j \in 1..Len(result.entries[k].values) :
                 result.entries[k].values[j] = Trim(result.entries[k].values[j])
       /\ str = WhitespaceExample
            => result = Attrs("object",
                 <<[tag |-> <<109, 117, 108, 116, 105, 118, 97, 108, 117, 101>>,
                    values |-> <<<<118, 97, 108, 49>>, <<118, 97, 108, 50>>, <<118, 97, 108, 51>>>>],
                   [tag |-> <<116, 101, 115, 116, 105, 110, 103>>,
                    values |-> <<<<98, 108, 97, 104>>>>]>>)

\* ------------------------------------------------------------------ C32
\* C32: no value list that parseAttributes returns holds the empty string.
C32_NoEmptyValue ==
  (api = "parseAttributes" /\ pc = "done")
    => \A k \in 1..Len(result.entries) :
         \A j \in 1..Len(result.entries[k].values) :
           result.entries[k].values[j] # <<>>

\* ------------------------------------------------------------------ C33
\* The value lists stored under _lineHash in the attributes of the result.
LineHashEntries ==
  {k \in 1..Len(result.attributes.entries) :
     result.attributes.entries[k].tag = LineHashTag}

\* The record's lineHash as a string: 'hash123', and '456' for the number.
ExpectedLineHash == IF input[1].number THEN <<52, 53, 54>> ELSE input[1].v

\* C33: after the record's line was parsed, a defined lineHash is found in
\* the attributes as _lineHash = [String(lineHash)], also when the line has
\* no attributes; with an undefined lineHash the attributes hold no
\* _lineHash.
C33_LineHashExact ==
  (api = "record" /\ pc = "done" /\ result.threw = "none")
    => IF input[1] = NoLineHash THEN LineHashEntries = {}
       ELSE /\ result.attributes.kind = "object"
            /\ Cardinality(LineHashEntries) = 1
            /\ \A k \in LineHashEntries :
                 result.attributes.entries[k].values = <<ExpectedLineHash>>

\* C33 as amended: a defined lineHash is found as _lineHash =
\* [String(lineHash)] whenever the line itself parses; with an undefined
\* lineHash the record adds nothing, and the attributes hold a _lineHash
\* only if the attribute column of the line has that tag.
C33_LineHashSetOrLeft ==
  (api = "record" /\ pc = "done")
    => LET parsed == IF HasEscapes(str) THEN parseFeature(str)
                     ELSE parseFeatureNoUnescape(str)
       IN IF input[1] = NoLineHash THEN result = parsed
          ELSE /\ result.threw = parsed.threw
               /\ parsed.threw = "none"
                    => /\ result.attributes.kind = "object"
                       /\ Cardinality(LineHashEntries) = 1
                       /\ \A k \in LineHashEntries :
                            result.attributes.entries[k].values = <<ExpectedLineHash>>

\* A record with lineHash 456 whose attribute column is '.': the attributes
\* were created and hold _lineHash = ['456'] alone.
C33_Witness ==
  /\ api = "record" /\ pc = "done"
  /\ input = <<NumberHash(456)>>
  /\ str = JoinTabs(<<<<99>>, Dot, <<103>>, <<52>>, <<52>>, Dot, <<43>>, <<>>, Dot>>)
  /\ result.threw = "none"
  /\ result.attributes =
       Attrs("object", <<[tag |-> LineHashTag, values |-> <<<<52, 53, 54>>>>]>>)

\* ------------------------------------------------------------------ C34
\* The lines of the several-parents specification: two genes, a child of
\* both with an ID, and a child of both without one.
MaxLenMulti == 4

GeneB == FL("gene", <<"b">>, <<>>, <<>>)
MrnaCofAB == FL("mRNA", <<"c">>, <<"a", "b">>, <<>>)
PartOfAB == FL("mRNA", <<>>, <<"a", "b">>, <<>>)

AlphabetMulti == {GeneA, GeneB, MrnaCofAB, PartOfAB}

InitMulti ==
  InitWith({"Parser", "parseRecords"}, SeqsUpTo(AlphabetMulti, MaxLenMulti),
           {Infinity}, {TRUE}, {TRUE})

SpecMulti == InitMulti /\ [][Next]_vars

\* The Feature object that holds line i.
FeatureOfLine(i) == CHOOSE f \in 1..Len(features) : i \in SeqToSet(features[f])

\* The Features whose first line defines the ID id.
FeaturesDefining(id) ==
  {f \in 1..Len(features) : id \in SeqToSet(lines[features[f][1]].ID)}

\* C34: after the flush of one scope that the buffer holds whole, a Feature
\* with a line that lists several parents occurs exactly once in the
\* child_features of every listed parent that the scope defines, whatever
\* the order of the lines.
C34_EveryParentOnce ==
  (pc = "done" /\ thrown = NoExc /\ errors = <<>>)
    => \A i \in 1..Len(lines) :
         Len(lines[i].Parent) >= 2 =>
           \A k \in 1..Len(lines[i].Parent) :
             \A parent \in FeaturesDefining(lines[i].Parent[k]) :
               Count(lines[features[parent][1]].child_features, FeatureOfLine(i)) = 1

\* ------------------------------------------------------------------ C35
\* addLine on text: which branch a line takes.
MaxTextLen == 4
MaxLineNumber == 3

Hash == 35
GreaterThan == 62

\* The length of the run of '#' at the start of s.
RECURSIVE HashRun(_)
HashRun(s) == IF s # <<>> /\ Head(s) = Hash THEN 1 + HashRun(Tail(s)) ELSE 0

\* /^\s*[^#\s>]/
featureLineRegex(line) ==
  LET rest == TrimStart(line) IN rest # <<>> /\ rest[1] \notin {Hash, GreaterThan}

\* /^\s*(#+)(.*)/ : the length of `hashsigns`, 0 when the line does not match.
commentOrDirectiveRegex(line) == HashRun(TrimStart(line))

\* /^\s*$/
blankLineRegex(line) == TrimStart(line) = <<>>

\* /^\s*>/
fastaStartRegex(line) ==
  LET rest == TrimStart(line) IN rest # <<>> /\ rest[1] = GreaterThan

\* The longest prefix of s without white space: (\S+), <<>> when there is none.
RECURSIVE NonSpacePrefix(_)
NonSpacePrefix(s) ==
  IF s = <<>> \/ IsWhiteSpace(Head(s)) THEN <<>>
  ELSE <<Head(s)>> \o NonSpacePrefix(Tail(s))

\* parseDirective(line).directive for a line with two '#': the name matched
\* by /^\s*##\s*(\S+)\s*(.*)/, <<>> when parseDirective returns null.
DirectiveName(line) ==
  LET rest == TrimStart(line) IN
  NonSpacePrefix(TrimStart(SubSeq(rest, 3, Len(rest))))

FastaName == <<70, 65, 83, 84, 65>>

\* A classification that takes every run of three or more '#' for a sync
\* marker.
LineKindThreeOrMore(line) ==
  IF featureLineRegex(line) THEN "feature"
  ELSE IF commentOrDirectiveRegex(line) > 0
  THEN IF commentOrDirectiveRegex(line) >= 3 THEN "sync"
       ELSE IF commentOrDirectiveRegex(line) = 2
       THEN IF DirectiveName(line) = <<>> THEN "nullDirective"
            ELSE IF DirectiveName(line) = FastaName THEN "FASTA"
            ELSE "directive"
       ELSE "comment"
  ELSE IF blankLineRegex(line) THEN "blank"
  ELSE IF fastaStartRegex(line) THEN "fastaStart"
  ELSE "parseError"

\* The branch of addLine that `line` takes.
LineKind(line) ==
  IF featureLineRegex(line) THEN "feature"
  ELSE IF commentOrDirectiveRegex(line) > 0
  THEN IF commentOrDirectiveRegex(line) = 3 THEN "sync"
       ELSE IF commentOrDirectiveRegex(line) = 2
       THEN IF DirectiveName(line) = <<>> THEN "nullDirective"
            ELSE IF DirectiveName(line) = FastaName THEN "FASTA"
            ELSE "directive"
       ELSE "comment"
  ELSE IF blankLineRegex(line) THEN "blank"
  ELSE IF fastaStartRegex(line) THEN "fastaStart"
  ELSE "parseError"

\* The text lines a caller feeds between feature lines: everything short over
\* blank, '#' and a letter that is not a feature line, and four longer ones:
\* '##FASTA', '## FASTA x', '##FASTAx', '>x'.
TextChars == {32, Hash, 120}

TextLines ==
  {s \in SeqsUpTo(TextChars, MaxTextLen) : ~featureLineRegex(s)}
    \cup {<<Hash, Hash>> \o FastaName,
          <<Hash, Hash, 32>> \o FastaName \o <<32, 120>>,
          <<Hash, Hash>> \o FastaName \o <<120>>,
          <<GreaterThan, 120>>}

\* parser.addLine(line) with a line of text that is not a feature line.
AddTextLine ==
  /\ api = "Parser" /\ pc = "feeding" /\ lineNumber < MaxLineNumber
  /\ \E line \in TextLines :
       LET p == AddLineTo(P, Other(LineKind(line))) IN
         /\ str' = line
         /\ eof' = p.eof
         /\ lineNumber' = p.lineNumber
         /\ underConstructionTopLevel' = p.underConstructionTopLevel
         /\ underConstructionById' = p.underConstructionById
         /\ completedReferences' = p.completedReferences
         /\ underConstructionOrphans' = p.underConstructionOrphans
         /\ lines' = p.lines
         /\ features' = p.features
         /\ delivered' = p.delivered
         /\ errors' = p.errors
         /\ thrown' = p.exc
         /\ ended' = p.ended
         /\ others' = p.others
  /\ UNCHANGED <<api, input, pos, pc, bufferSize, disableDerivesFromReferences,
                 errorCallbackThrows, items, byId, orphans, result,
                 unescapeVersion>>

MaxLenText == 2

InitText ==
  InitWith({"Parser"}, SeqsUpTo({GeneA, MrnaBofA}, MaxLenText),
           {Infinity}, {TRUE}, {TRUE})

NextText ==
  \/ AddLine
  \/ AddParsedFeatureLine
  \/ AddTextLine
  \/ Finish

SpecText == InitText /\ [][NextText]_vars

\* A step of AddTextLine: the only steps that leave pos and pc alone.
TextStep == pc = "feeding" /\ pc' = "feeding" /\ pos' = pos

\* The four tables and the deliveries are what they were.
TablesUntouched ==
  /\ UNCHANGED <<underConstructionById, underConstructionTopLevel,
                 underConstructionOrphans, completedReferences>>
  /\ delivered' = delivered

\* C35: a comment, blank or directive line other than '##FASTA' and '###'
\* leaves the by-ID table, the queue, the orphan table and the
\* completed-reference table unchanged and delivers no Feature: only a line
\* that consists of three '#' (white space around them aside) flushes.
C35_OnlyBareThreeHashesSync ==
  [][TextStep =>
       \/ Trim(str') = <<Hash, Hash, Hash>>
       \/ LineKind(str') \in {"FASTA", "fastaStart"}
       \/ TablesUntouched]_vars

\* C35 as the code has it: the line is a sync marker exactly when the run of
\* '#' that starts it (after white space) is three long, whatever follows
\* the run; the sync marker delivers the queue and empties the queue, the
\* by-ID table and the completed-reference table; every other comment, blank
\* or directive line except the FASTA directive leaves the four tables
\* unchanged and delivers nothing.
C35_RunOfThreeHashesSync ==
  [][TextStep =>
       IF commentOrDirectiveRegex(str') = 3
       THEN ~eof =>
              /\ delivered' = delivered \o underConstructionTopLevel
              /\ underConstructionTopLevel' = <<>>
              /\ underConstructionById' = [i \in IDs |-> 0]
              /\ completedReferences' = [i \in IDs |-> {}]
       ELSE \/ LineKind(str') \in {"FASTA", "fastaStart"}
            \/ TablesUntouched]_vars

\* '###x' after a gene: the gene was delivered by the marker.
C35_Witness ==
  /\ api = "Parser" /\ pc = "feeding"
  /\ str = <<Hash, Hash, Hash, 120>>
  /\ input = <<GeneA>> /\ pos = 1
  /\ delivered = <<1>>
  /\ underConstructionTopLevel = <<>>
  /\ underConstructionById = [i \in IDs |-> 0]

\* ------------------------------------------------------------------ C36
\* C36: when the resolver is done, all lines of every delivered Feature
\* carry the same child_features and the same derived_features, also a line
\* that arrived after children were attached.
C36_LinesShareLists ==
  pc = "done" =>
    \A k \in 1..Len(delivered) :
      \A i, j \in SeqToSet(features[delivered[k]]) :
        /\ lines[i].child_features = lines[j].child_features
        /\ lines[i].derived_features = lines[j].derived_features

\* ------------------------------------------------------------------ C37
\* The lines of the cycle specification: two top-level genes, a child of a,
\* a line of a whose Parent is its own child b, and a child of a that names
\* itself as a second parent.
MaxLenCycle == 4

GeneAofB == FL("gene", <<"a">>, <<"b">>, <<>>)
MrnaBofAB == FL("mRNA", <<"b">>, <<"a", "b">>, <<>>)

AlphabetCycle == {GeneA, GeneC, MrnaBofA, GeneAofB, MrnaBofAB}

InitCycle ==
  InitWith({"Parser", "parseRecords"}, SeqsUpTo(AlphabetCycle, MaxLenCycle),
           {Finite(1), Infinity}, {TRUE}, {TRUE})

SpecCycle == InitCycle /\ [][Next]_vars

\* The Features listed by the lines of the Features in S.
ListedBy(S) ==
  UNION {SeqToSet(lines[i].child_features) \cup SeqToSet(lines[i].derived_features) :
           i \in UNION {SeqToSet(features[f]) : f \in S}}

\* The Features a consumer can get to from the Features in S.
RECURSIVE ReachableFrom(_)
ReachableFrom(S) ==
  IF ListedBy(S) \subseteq S THEN S ELSE ReachableFrom(S \cup ListedBy(S))

\* The lines the consumer got, at top level or nested.
DeliveredLines ==
  UNION {SeqToSet(features[f]) : f \in ReachableFrom(SeqToSet(delivered))}

\* C37: when the whole input was buffered and the resolver is done, every
\* line that was fed is a line of a delivered Feature or of a Feature nested
\* under one, or an error was reported or thrown: also when Parent
\* references form a cycle or name the line's own ID.
C37_NoLineSilentlyLost ==
  (pc = "done" /\ ~bufferSize.finite /\ errors = <<>> /\ thrown = NoExc)
    => DeliveredLines = 1..Len(lines)

\* ------------------------------------------------------------------ C38
\* C38: every call that feeds a line returns or throws: the loop of
\* _enforceBufferSizeLimit ends for bufferSize 0, 1 and 2 and every content
\* of the queue, the empty queue included.
C38_EvictionLoopTerminates == api = "Parser" => pc # "hung"

\* ------------------------------------------------------------------ C39
\* C39: the recursion of _unbufferItem over the descendants of an evicted
\* Feature comes to an end for every reference graph the lines can build,
\* cycles included: no call ends with the engine's RangeError for a call
\* stack that grew without bound.
C39_RemovalTerminates == api = "Parser" => thrown # StackOverflowMsg

\* ------------------------------------------------------------------ C40
\* C40: after a feed call that returned, every Feature in the top-level
\* queue is the by-ID entry of each ID of its first line; hence no two
\* queued Features share an ID.
C40_ByIdIndexesQueue ==
  (api = "Parser" /\ pc = "feeding" /\ thrown = NoExc)
    => \A k \in 1..Len(underConstructionTopLevel) :
         \A id \in IdsOf(underConstructionTopLevel[k]) :
           underConstructionById[id] = underConstructionTopLevel[k]

====
